---------------------------- MODULE Spec2Model ----------------------------
(***************************************************************************)
(* A model of hush (busybox shell/hush.c): the single-pass parser          *)
(* (parse_stream and its helpers), the statement loop parse_stream_outer,  *)
(* the executor (run_list_real / run_pipe_real), the redirection code      *)
(* (setup_redirects / restore_redirects) and job control (checkjobs).      *)
(*                                                                         *)
(* Characters are one-character strings; a C string is a sequence of       *)
(* them.  A NULL pointer to a list (argv, group, redirects) is the empty   *)
(* sequence: every non-NULL list of the program has at least one element.  *)
(***************************************************************************)
EXTENDS Integers, Sequences, FiniteSets, TLC

(***************************************************************************)
(* Bounds of the model.                                                    *)
(***************************************************************************)
MaxLen == 3

(***************************************************************************)
(* Program constants.                                                      *)
(***************************************************************************)
PIPE_SEQ == 1
PIPE_AND == 2
PIPE_OR == 3
PIPE_BG == 4

RES_NONE == 0
RES_IF == 1
RES_THEN == 2
RES_ELIF == 3
RES_ELSE == 4
RES_FI == 5
RES_FOR == 6
RES_WHILE == 7
RES_UNTIL == 8
RES_DO == 9
RES_DONE == 10
RES_XXXX == 11
RES_IN == 12
RES_SNTX == 13

REDIRECT_INPUT == 1
REDIRECT_OVERWRITE == 2
REDIRECT_APPEND == 3
REDIRECT_HEREIS == 4
REDIRECT_IO == 5

\* A flag word (old_flag, reserved_combo.flag) is the set of its bit numbers.
FLAG_END == {RES_NONE}
FLAG_START == {RES_XXXX}

\* ctx->type / parse_stream_outer's flag: the set of the flags that are set.
FLAG_EXIT_FROM_LOOP == "EXIT_FROM_LOOP"
FLAG_PARSE_SEMICOLON == "PARSE_SEMICOLON"
FLAG_REPARSING == "REPARSING"

\* The byte 03 that brackets a deferred variable name inside a word.
SPECIAL_VAR_SYMBOL == "^C"

\* What b_getch returns at the end of input, and the byte '\0'.
EOF == "EOF"
NUL == "NUL"

NL == "\n"
TAB == "\t"
BSL == "\\"
SQ == "'"
DQ == "\""
\* the backquote, written as a name
BQ == "BQ"

(***************************************************************************)
(* <ctype.h> on the characters the model uses.                             *)
(***************************************************************************)
Letters == {"a", "b", "c", "d", "e", "f", "g", "h", "i", "j", "k", "l", "m",
            "n", "o", "p", "q", "r", "s", "t", "u", "v", "w", "x", "y", "z",
            "A", "B", "C", "D", "E", "F", "G", "H", "I", "J", "K", "L", "M",
            "N", "O", "P", "Q", "R", "S", "T", "U", "V", "W", "X", "Y", "Z"}
DigitSeq == <<"0", "1", "2", "3", "4", "5", "6", "7", "8", "9">>
Digits == {DigitSeq[i] : i \in 1..10}

isalpha(ch) == ch \in Letters
isdigit(ch) == ch \in Digits
isalnum(ch) == isalpha(ch) \/ isdigit(ch)
DigitVal(ch) == (CHOOSE i \in 1..10 : DigitSeq[i] = ch) - 1

Last(s) == s[Len(s)]
Front(s) == SubSeq(s, 1, Len(s) - 1)
SeqToSet(s) == {s[i] : i \in 1..Len(s)}

\* atoi on a string of digits
RECURSIVE atoi(_)
atoi(s) == IF s = <<>> THEN 0 ELSE 10 * atoi(Front(s)) + DigitVal(Last(s))

\* utoa_to_buf: the decimal digits of an unsigned number
RECURSIVE utoa(_)
utoa(n) == IF n < 10 THEN <<DigitSeq[n + 1]>>
           ELSE Append(utoa(n \div 10), DigitSeq[(n % 10) + 1])

(***************************************************************************)
(* o_string: the token buffer.  data is the text, length is Len(data).     *)
(***************************************************************************)
NULL_O_STRING == [data |-> <<>>, quote |-> FALSE, nonnull |-> FALSE]

b_addchr(o, ch) == [o EXCEPT !.data = Append(@, ch)]

\* b_reset without "o->length = 0"
b_reset_keeps_text(o) == [o EXCEPT !.nonnull = FALSE]

b_reset(o) == [o EXCEPT !.data = <<>>, !.nonnull = FALSE]

b_free(o) == b_reset(o)

GlobMeta == {"*", "?", "[", BSL}

\* strchr("*?[\\", ch) also finds the terminating NUL of the literal
b_addqchr(o, ch, quote) ==
    IF quote /\ (ch \in GlobMeta \/ ch = NUL)
    THEN b_addchr(b_addchr(o, BSL), ch)
    ELSE b_addchr(o, ch)

RECURSIVE AddAll(_, _)
AddAll(o, s) == IF s = <<>> THEN o ELSE AddAll(b_addchr(o, Head(s)), Tail(s))

b_adduint(o, i) == AddAll(o, utoa(i))

(***************************************************************************)
(* in_str: the input stream.  A string stream reads data through the       *)
(* cursor pos (the pointer p; pos 0 is p == NULL).  A file stream reads    *)
(* the FILE through pos and keeps the character file_peek fetched in pbuf  *)
(* (peek_buf, with p pointing at it) until file_get takes it; None is "p   *)
(* is NULL or at the buffer's NUL".  fgetc's EOF stored in the char buffer *)
(* reads back as EOF where char is signed.                                 *)
(*                                                                         *)
(* A string stream read through a NULL p, or after p has passed the        *)
(* terminator, is a read outside the string: it yields junk, the byte the  *)
(* build happens to find there (SEGV when the access faults), and sets     *)
(* over.  The byte after a junk byte is taken to be a NUL.                 *)
(***************************************************************************)
None == "None"
SEGV == "SEGV"

StringIn(s, junk) ==
    [kind |-> "string", data |-> s, pos |-> 1, pbuf |-> None,
     junk |-> junk, over |-> FALSE]
FileIn(s, junk) ==
    [kind |-> "file", data |-> s, pos |-> 1, pbuf |-> None,
     junk |-> junk, over |-> FALSE]

Outside(i) == i.pos = 0 \/ i.pos > Len(i.data) + 1

\* static_get: <<character, stream>>; p moves even past the terminator
static_get(i) ==
    IF Outside(i)
    THEN <<IF i.junk = NUL THEN EOF ELSE i.junk,
           [i EXCEPT !.pos = IF @ = 0 THEN 0 ELSE @ + 1, !.over = TRUE,
                     !.junk = IF @ = SEGV THEN SEGV ELSE NUL]>>
    ELSE <<IF i.pos > Len(i.data) THEN EOF ELSE i.data[i.pos],
           [i EXCEPT !.pos = @ + 1]>>

\* static_peek: the byte at p, which is NUL (not EOF) at the end
static_peek(i) ==
    IF Outside(i) THEN <<i.junk, [i EXCEPT !.over = TRUE]>>
    ELSE <<IF i.pos > Len(i.data) THEN NUL ELSE i.data[i.pos], i>>

fgetc(i) ==
    IF i.pos > Len(i.data) THEN <<EOF, i>>
    ELSE <<i.data[i.pos], [i EXCEPT !.pos = @ + 1]>>

file_get(i) ==
    IF i.pbuf # None THEN <<i.pbuf, [i EXCEPT !.pbuf = None]>>
    ELSE fgetc(i)

file_peek(i) ==
    IF i.pbuf # None THEN <<i.pbuf, i>>
    ELSE LET r == fgetc(i) IN <<r[1], [r[2] EXCEPT !.pbuf = r[1]]>>

b_getch(i) == IF i.kind = "string" THEN static_get(i) ELSE file_get(i)
b_peek(i) == IF i.kind = "string" THEN static_peek(i) ELSE file_peek(i)

\* inp->p = NULL
ResetP(i) ==
    IF i.kind = "string" THEN [i EXCEPT !.pos = 0] ELSE [i EXCEPT !.pbuf = None]

(***************************************************************************)
(* glob(3) and the shell's wrapper.  The directory the shell runs in holds *)
(* the files Files (sorted, as glob returns them).  Bracket expressions    *)
(* are not interpreted: no input of the model holds a "]".                 *)
(***************************************************************************)
Files == << <<"a">>, <<"a", "b">> >>

RECURSIVE fnmatch(_, _)
fnmatch(p, s) ==
    IF p = <<>> THEN s = <<>>
    ELSE IF Head(p) = "*"
         THEN fnmatch(Tail(p), s) \/ (s # <<>> /\ fnmatch(p, Tail(s)))
    ELSE IF Head(p) = "?"
         THEN s # <<>> /\ fnmatch(Tail(p), Tail(s))
    ELSE IF Head(p) = BSL /\ Len(p) > 1
         THEN s # <<>> /\ Head(s) = p[2] /\ fnmatch(Tail(Tail(p)), Tail(s))
    ELSE s # <<>> /\ Head(s) = Head(p) /\ fnmatch(Tail(p), Tail(s))

\* glob(): the matching path names, <<>> for GLOB_NOMATCH
glob(pattern) == SelectSeq(Files, LAMBDA f : fnmatch(pattern, f))

\* globhack's copy loop: a backslash is dropped and the next byte copied.
\* With a backslash as the last byte the copied byte is the terminator, so
\* the C string ends there (and the loop goes on reading past src).
RECURSIVE Unbackslash(_)
Unbackslash(s) ==
    IF s = <<>> THEN <<>>
    ELSE IF Head(s) = BSL
         THEN IF Len(s) = 1 THEN <<>>
              ELSE <<s[2]>> \o Unbackslash(Tail(Tail(s)))
    ELSE <<Head(s)>> \o Unbackslash(Tail(s))

RECURSIVE EndsInLoneBackslash(_)
EndsInLoneBackslash(s) ==
    IF s = <<>> THEN FALSE
    ELSE IF Head(s) = BSL
         THEN Len(s) = 1 \/ EndsInLoneBackslash(Tail(Tail(s)))
    ELSE EndsInLoneBackslash(Tail(s))

\* globhack(src, flags, pglob): the new gl_pathv
globhack(src, append, pathv) ==
    (IF append THEN pathv ELSE <<>>) \o <<Unbackslash(src)>>

RECURSIVE glob_needed(_)
glob_needed(s) ==
    IF s = <<>> THEN FALSE
    ELSE IF Head(s) = BSL
         THEN IF Len(s) = 1 THEN TRUE   \* strchr("*[?", '\0') is not NULL
              ELSE s[2] \in {"*", "[", "?"} \/ glob_needed(Tail(Tail(s)))
    ELSE Head(s) \in {"*", "[", "?"} \/ glob_needed(Tail(s))

\* xglob(dest, flags, pglob): gr is 0 (every other result of the model's
\* glob is GLOB_NOMATCH, which xglob turns into globhack), pathv the new
\* gl_pathv, ub whether globhack read past the end of dest->data.
xglob(dest, append, pathv) ==
    IF dest.data = <<>>
    THEN [gr |-> 0, ub |-> FALSE,
          pathv |-> IF dest.nonnull THEN globhack(<<>>, append, pathv)
                    ELSE pathv]
    ELSE IF glob_needed(dest.data) /\ glob(dest.data) # <<>>
         THEN [gr |-> 0, ub |-> FALSE,
               pathv |-> (IF append THEN pathv ELSE <<>>) \o glob(dest.data)]
    ELSE [gr |-> 0, ub |-> EndsInLoneBackslash(dest.data),
          pathv |-> globhack(dest.data, append, pathv)]

(***************************************************************************)
(* The parse tree: struct pipe, struct child_prog, struct redir_struct.    *)
(* progs holds the num_progs committed commands and, after them, the one   *)
(* zeroed slot done_command allocates (the open command while parsing).    *)
(***************************************************************************)
ZeroChild(type) ==
    [pid |-> 0, argv |-> <<>>, group |-> <<>>, subshell |-> 0,
     redirects |-> <<>>, is_stopped |-> 0, sp |-> 0, type |-> type]

new_pipe ==
    [num_progs |-> 0, running_progs |-> 0, stopped_progs |-> 0,
     progs |-> <<>>, followup |-> 0, r_mode |-> RES_NONE,
     jobid |-> 0, pgrp |-> 0]

IsNullCommand(prog) ==
    prog.group = <<>> /\ prog.argv = <<>> /\ prog.redirects = <<>>

(***************************************************************************)
(* struct p_context.  pipes is the list from list_head to pipe (the last   *)
(* element); child says whether ctx->child is set, and it then points at   *)
(* the slot after the committed commands of the last pipe.  A pending      *)
(* redirect is the place <<pipe, command, redirect>> of the redir_struct   *)
(* in pipes, <<>> for NULL.  stack is the chain of saved contexts, the     *)
(* innermost first.                                                        *)
(***************************************************************************)
OpenChild(ctx) ==
    LET pi == Last(ctx.pipes) IN pi.progs[pi.num_progs + 1]

SetOpenChild(ctx, prog) ==
    LET n == Len(ctx.pipes)
    IN [ctx EXCEPT !.pipes[n].progs[ctx.pipes[n].num_progs + 1] = prog]

done_command(ctx) ==
    LET n == Len(ctx.pipes)
        pi == ctx.pipes[n]
    IN IF ctx.child /\ IsNullCommand(OpenChild(ctx)) THEN ctx
       ELSE LET np == IF ctx.child THEN pi.num_progs + 1 ELSE pi.num_progs
                pi2 == [pi EXCEPT !.num_progs = np,
                                  !.progs = Append(SubSeq(pi.progs, 1, np),
                                                   ZeroChild(ctx.type))]
            IN [ctx EXCEPT !.pipes[n] = pi2, !.child = TRUE]

\* done_pipe after its first done_command left c1
ClosePipe(c1, type) ==
    done_command([c1 EXCEPT
                    !.pipes = Append([@ EXCEPT
                                        ![Len(c1.pipes)] =
                                            [@ EXCEPT !.followup = type,
                                                      !.r_mode = c1.w]],
                                     new_pipe),
                    !.child = FALSE])

done_pipe(ctx, type) == ClosePipe(done_command(ctx), type)

\* initialize_context leaves ctx->type as it is
initialize_context(ctx) ==
    done_command([pipes |-> <<new_pipe>>, child |-> FALSE, pending |-> <<>>,
                  w |-> RES_NONE, old_flag |-> {}, stack |-> <<>>,
                  type |-> ctx.type])

(***************************************************************************)
(* The parser's state, threaded through the parsing functions as one       *)
(* record:                                                                 *)
(*   inp    the in_str being read           dest   the o_string            *)
(*   ctx    the p_context                   flag   parse_stream_outer's    *)
(*   ifs    the value of IFS behind map[]          flag (map[] and type)   *)
(*   argv, last_return_code, last_bg_pid, pid   the globals handle_dollar  *)
(*          reads (argv is global_argv, Len(argv) is global_argc)          *)
(*   utype  the value an uninitialized p_context.type happens to hold      *)
(*   outs   what the commands substituted in this statement will print     *)
(*   sntx   a syntax diagnostic was printed     subs  the lists run for    *)
(*   ub     a read outside a string happened          command substitution *)
(*   ret    the return value of the last helper called                     *)
(*   rc     parse_stream's return value, or Running while it loops         *)
(***************************************************************************)
\* rc while the loop of parse_stream runs, and after a fault stopped it
Running == 2
Faulted == 3

syntax(st) == [st EXCEPT !.sntx = TRUE]

reserved_list ==
    << [literal |-> <<"i", "f">>, code |-> RES_IF,
        flag |-> {RES_THEN} \cup FLAG_START],
       [literal |-> <<"t", "h", "e", "n">>, code |-> RES_THEN,
        flag |-> {RES_ELIF, RES_ELSE, RES_FI}],
       [literal |-> <<"e", "l", "i", "f">>, code |-> RES_ELIF,
        flag |-> {RES_THEN}],
       [literal |-> <<"e", "l", "s", "e">>, code |-> RES_ELSE,
        flag |-> {RES_FI}],
       [literal |-> <<"f", "i">>, code |-> RES_FI, flag |-> FLAG_END],
       [literal |-> <<"f", "o", "r">>, code |-> RES_FOR,
        flag |-> {RES_IN} \cup FLAG_START],
       [literal |-> <<"w", "h", "i", "l", "e">>, code |-> RES_WHILE,
        flag |-> {RES_DO} \cup FLAG_START],
       [literal |-> <<"u", "n", "t", "i", "l">>, code |-> RES_UNTIL,
        flag |-> {RES_DO} \cup FLAG_START],
       [literal |-> <<"i", "n">>, code |-> RES_IN, flag |-> {RES_DO}],
       [literal |-> <<"d", "o">>, code |-> RES_DO, flag |-> {RES_DONE}],
       [literal |-> <<"d", "o", "n", "e">>, code |-> RES_DONE,
        flag |-> FLAG_END] >>

\* A pop that leaves the stack as it is.
PopTo_leaves_stack(d) ==
    [SetOpenChild(Head(d.stack),
                  [OpenChild(Head(d.stack)) EXCEPT !.group = d.pipes,
                                                   !.subshell = 0])
     EXCEPT !.stack = d.stack]

\* The saved context gets the list d closed as the group of its child.
PopTo(d) ==
    [SetOpenChild(Head(d.stack),
                  [OpenChild(Head(d.stack)) EXCEPT !.group = d.pipes,
                                                   !.subshell = 0])
     EXCEPT !.stack = Tail(d.stack)]

\* The "pop stack" branch of reserved_word.
PopContext(ctx) == PopTo(done_pipe(ctx, PIPE_SEQ))

\* The "push stack" branch: *new = *ctx; initialize_context(ctx).
PushContext(ctx) ==
    [initialize_context(ctx) EXCEPT
        !.stack = <<[ctx EXCEPT !.stack = <<>>]>> \o ctx.stack]

\* The entries of reserved_list whose literal is the word
ReservedAt(data) ==
    {i \in 1..Len(reserved_list) : reserved_list[i].literal = data}

\* reserved_word for the word of entry r, the context pushed if r starts
\* a construct (c1)
ReservedIn(st, r, c1) ==
    [st EXCEPT
       !.ctx = IF FLAG_END \subseteq r.flag
               THEN PopContext([c1 EXCEPT !.w = r.code, !.old_flag = r.flag])
               ELSE [c1 EXCEPT !.w = r.code, !.old_flag = r.flag],
       !.dest = b_reset(st.dest),
       !.ret = 1]

\* reserved_word for the word of entry r
Reserved(st, r) ==
    LET ctx == st.ctx
        start == FLAG_START \subseteq r.flag
        bad == IF start THEN ctx.w \in {RES_IN, RES_FOR}
               ELSE ctx.w = RES_NONE \/ r.code \notin ctx.old_flag
    IN IF bad
       THEN [syntax(st) EXCEPT !.ctx.w = RES_SNTX,
                               !.dest = b_reset(st.dest), !.ret = 1]
       ELSE ReservedIn(st, r, IF start THEN PushContext(ctx) ELSE ctx)

reserved_word(st) ==
    IF ReservedAt(st.dest.data) = {} THEN [st EXCEPT !.ret = 0]
    ELSE Reserved(st, reserved_list[CHOOSE i \in ReservedAt(st.dest.data) :
                                       TRUE])

RedirAt(ctx, path) ==
    ctx.pipes[path[1]].progs[path[2]].redirects[path[3]]

\* The end of done_word: the word is in its place (c1 is the context with
\* it, g what xglob made of it), dest is reset, and after "for" the pipe
\* is closed.
WordDone(st, c1, g) ==
    LET s1 == [st EXCEPT !.ctx = c1, !.dest = b_reset(st.dest),
                         !.ub = @ \/ g.ub]
    IN IF c1.w = RES_FOR
       THEN [s1 EXCEPT !.ctx = done_pipe(c1, PIPE_SEQ), !.ret = 0]
       ELSE [s1 EXCEPT !.ret = 0]

\* done_word for the word of a pending redirect: g is what xglob made of
\* it, and anything but one path is a syntax error.
RedirectWord(st, g) ==
    LET pa == st.ctx.pending
        c1 == [st.ctx EXCEPT
                 !.pipes[pa[1]].progs[pa[2]].redirects[pa[3]].word = g.pathv,
                 !.pending = <<>>]
    IN IF Len(g.pathv) # 1
       THEN [syntax([st EXCEPT !.ctx = c1, !.dest = b_reset(st.dest),
                               !.ub = @ \/ g.ub])
             EXCEPT !.ret = 1]
       ELSE WordDone(st, c1, g)

\* done_word for a word of the command, after reserved_word (sr) had its
\* look at it.
CommandWord(st, sr) ==
    LET child == OpenChild(st.ctx)
    IN IF sr.ret = 1
       THEN [sr EXCEPT !.ret = IF sr.ctx.w = RES_SNTX THEN 1 ELSE 0]
       ELSE WordDone(st,
                     SetOpenChild(st.ctx,
                         [child EXCEPT
                            !.argv = xglob(st.dest, child.argv # <<>>,
                                           child.argv).pathv]),
                     xglob(st.dest, child.argv # <<>>, child.argv))

\* done_word that takes a word for a command with a group
done_word_mixes(st) ==
    LET dest == st.dest
        ctx == st.ctx
        child == OpenChild(ctx)
    IN IF dest.data = <<>> /\ ~dest.nonnull THEN [st EXCEPT !.ret = 0]
       ELSE IF ctx.pending # <<>>
       THEN RedirectWord(st, xglob(dest, FALSE,
                                   RedirAt(ctx, ctx.pending).word))
       ELSE CommandWord(st,
                IF child.argv = <<>> /\ FLAG_PARSE_SEMICOLON \in ctx.type
                THEN reserved_word(st) ELSE [st EXCEPT !.ret = 0])

done_word(st) ==
    LET dest == st.dest
        ctx == st.ctx
        child == OpenChild(ctx)
    IN IF dest.data = <<>> /\ ~dest.nonnull THEN [st EXCEPT !.ret = 0]
       ELSE IF ctx.pending # <<>>
       THEN RedirectWord(st, xglob(dest, FALSE,
                                   RedirAt(ctx, ctx.pending).word))
       ELSE IF child.group # <<>> THEN [syntax(st) EXCEPT !.ret = 1]
       ELSE CommandWord(st,
                IF child.argv = <<>> /\ FLAG_PARSE_SEMICOLON \in ctx.type
                THEN reserved_word(st) ELSE [st EXCEPT !.ret = 0])

(***************************************************************************)
(* Redirections, as parsed.                                                *)
(***************************************************************************)
default_fd(style) ==
    CASE style = REDIRECT_INPUT -> 0
      [] style = REDIRECT_HEREIS -> -1
      [] OTHER -> 1

\* The digits loop of redirect_dup_num: <<d, ok, stream>>
RECURSIVE DupDigits(_, _, _)
DupDigits(i, d, ok) ==
    LET pk == b_peek(i)
    IN IF isdigit(pk[1])
       THEN DupDigits(b_getch(pk[2])[2], d * 10 + DigitVal(pk[1]), TRUE)
       ELSE <<d, ok, pk[2]>>

\* redirect_dup_num after the '&', pk2 being what b_peek gives then
DupNum(pk2, r) ==
    IF pk2[1] = "-" THEN <<-3, b_getch(pk2[2])[2]>>
    ELSE IF r[2] THEN <<r[1], r[3]>> ELSE <<-2, r[3]>>

DupPeek(pk2) == DupNum(pk2, DupDigits(pk2[2], 0, FALSE))

DupAmp(pk) ==
    IF pk[1] # "&" THEN <<-1, pk[2]>>
    ELSE DupPeek(b_peek(b_getch(pk[2])[2]))

\* redirect_dup_num: <<-2 | -1 | -3 | number, stream>>
redirect_dup_num(i) == DupAmp(b_peek(i))

\* redirect_opt_num: <<number or -1, o_string>>
redirect_opt_num(o) ==
    IF o.data = <<>> \/ \E k \in 1..Len(o.data) : ~isdigit(o.data[k])
    THEN <<-1, o>>
    ELSE <<atoi(o.data), b_reset(o)>>

\* setup_redirect with d what redirect_dup_num returned
AddRedirect(st, fd, style, d) ==
    LET ctx == st.ctx
        child == OpenChild(ctx)
        redir == [type |-> style,
                  fd |-> IF fd = -1 THEN default_fd(style) ELSE fd,
                  dup |-> d[1], word |-> <<>>]
        c1 == SetOpenChild(ctx, [child EXCEPT !.redirects = Append(@, redir)])
        here == <<Len(ctx.pipes), Last(ctx.pipes).num_progs + 1,
                  Len(child.redirects) + 1>>
    IN IF d[1] = -2
       THEN [syntax(st) EXCEPT !.ctx = c1, !.inp = d[2], !.ret = 1]
       ELSE IF d[1] # -1
       THEN [st EXCEPT !.ctx = c1, !.inp = d[2], !.ret = 0]
       ELSE [st EXCEPT !.ctx = [c1 EXCEPT !.pending = here],
                       !.inp = d[2], !.ret = 0]

setup_redirect(st, fd, style) ==
    AddRedirect(st, fd, style, redirect_dup_num(st.inp))

(***************************************************************************)
(* map[], as update_ifs_map and parse_stream_outer's mapset leave it.      *)
(***************************************************************************)
Map(st, ch) ==
    IF ch \in {";", "$", "&", "|"}
       /\ (FLAG_PARSE_SEMICOLON \notin st.flag \/ FLAG_REPARSING \in st.flag)
    THEN 0
    ELSE IF ch \in SeqToSet(st.ifs) THEN 2
    ELSE IF ch \in {"<", ">", ";", "&", "|", "(", ")", "{", "}", "#"} THEN 1
    ELSE IF ch \in {BSL, "$", SQ, DQ, BQ} THEN 3
    ELSE 0

\* The loop of case '#': the stream with the rest of the line eaten.
RECURSIVE SkipComment(_)
SkipComment(i) ==
    LET pk == b_peek(i)
    IN IF pk[1] \in {EOF, NL} \/ pk[2].over THEN pk[2]
       ELSE SkipComment(b_getch(pk[2])[2])

\* The loops of case '\'' and of "${": <<closing character, text, stream>>
RECURSIVE ReadUntil(_, _, _)
ReadUntil(i, close, acc) ==
    LET g == b_getch(i)
    IN IF g[1] = EOF \/ g[1] = close \/ g[2].over THEN <<g[1], acc, g[2]>>
       ELSE ReadUntil(g[2], close, Append(acc, g[1]))

\* The loop of "$name": <<text, stream>>
RECURSIVE ReadName(_, _)
ReadName(i, acc) ==
    LET pk == b_peek(i)
    IN IF (isalnum(pk[1]) \/ pk[1] = "_") /\ ~pk[2].over
       THEN ReadName(b_getch(pk[2])[2], Append(acc, pk[1]))
       ELSE <<acc, pk[2]>>

BumpSp(ctx) == SetOpenChild(ctx, [OpenChild(ctx) EXCEPT !.sp = @ + 1])

\* What a nested parse_stream hands back to the function that called it
\* with its own in_str, o_string or p_context.
Back(r, inp) ==
    [r EXCEPT !.inp = inp, !.ret = r.rc, !.rc = Running,
              !.ub = @ \/ r.inp.over,
              !.crashed = @ \/ r.rc = Faulted
                                \/ (r.inp.over /\ r.inp.junk = SEGV)]

RECURSIVE parse_stream(_, _)
RECURSIVE Iter(_, _)
RECURSIVE Switch(_, _, _)
RECURSIVE handle_dollar(_)
RECURSIVE DollarStar(_, _)
RECURSIVE process_command_subs(_, _)
RECURSIVE parse_group(_, _)
RECURSIVE parse_string(_, _)

parse_string(st, src) ==
    Back(parse_stream([st EXCEPT !.inp = StringIn(src, st.inp.junk),
                                 !.rc = Running], NUL),
         st.inp)

\* The loop of case '*' in handle_dollar, from global_argv[i] on.
DollarSep(s1, i) ==
    IF i + 1 < Len(s1.argv) THEN parse_string(s1, <<Head(s1.ifs)>>) ELSE s1

DollarStar(st, i) ==
    IF i >= Len(st.argv) THEN st
    ELSE DollarStar(DollarSep(parse_string(st, st.argv[i + 1]), i), i + 1)

\* process_command_subs after its inner list is parsed and closed (r1):
\* the list's output is parsed into the caller's dest and ctx.
SubsOutput(st, r1) ==
    Back(parse_stream([r1 EXCEPT
                          !.dest = st.dest, !.ctx = st.ctx,
                          !.inp = FileIn(st.outs, st.inp.junk),
                          !.subs = Append(@, done_pipe(r1.ctx, PIPE_SEQ).pipes),
                          !.rc = Running], NUL),
         r1.inp)

\* process_command_subs after the parse_stream of the inner list (r)
SubsParsed(st, r) ==
    IF r.rc # 0
    THEN [Back(r, r.inp) EXCEPT !.dest = st.dest, !.ctx = st.ctx]
    ELSE SubsOutput(st, done_word(r))

process_command_subs(st, subst_end) ==
    SubsParsed(st,
               parse_stream([st EXCEPT
                               !.dest = NULL_O_STRING,
                               !.ctx = initialize_context([type |-> st.utype]),
                               !.rc = Running], subst_end))

\* parse_group after its parse_stream returned rcode and the inner list
\* is closed (r1): the list becomes the group of the open child.
GroupClosed(outer, rcode, r1) ==
    [r1 EXCEPT
       !.ctx = SetOpenChild(outer,
                            [OpenChild(outer) EXCEPT
                               !.group = done_pipe(r1.ctx, PIPE_SEQ).pipes]),
       !.ret = rcode,
       !.crashed = @ \/ rcode = Faulted]

\* parse_group after the parse_stream of the inner list (r)
GroupParsed(outer, r) ==
    GroupClosed(outer, r.rc, done_word([r EXCEPT !.rc = Running]))

parse_group(st, ch) ==
    LET child == OpenChild(st.ctx)
    IN IF child.argv # <<>> THEN [syntax(st) EXCEPT !.ret = 1]
       ELSE GroupParsed(
                SetOpenChild(st.ctx,
                             [child EXCEPT
                                 !.subshell = IF ch = "(" THEN 1 ELSE @]),
                parse_stream([st EXCEPT
                         !.ctx = initialize_context([type |-> st.utype]),
                         !.rc = Running],
                             IF ch = "(" THEN ")" ELSE "}"))

handle_dollar(st) ==
    LET pk == b_peek(st.inp)
        ch == pk[1]
        s0 == [st EXCEPT !.inp = pk[2], !.ret = 0]
        eat(x) == [x EXCEPT !.inp = b_getch(x.inp)[2], !.ret = 0]
    IN IF isalpha(ch)
       THEN LET n == ReadName(s0.inp, <<>>)
            IN [s0 EXCEPT
                  !.dest = b_addchr(AddAll(b_addchr(@, SPECIAL_VAR_SYMBOL),
                                           n[1]), SPECIAL_VAR_SYMBOL),
                  !.ctx = BumpSp(@), !.inp = n[2]]
       ELSE IF isdigit(ch)
       THEN IF DigitVal(ch) < Len(st.argv)
            THEN eat(parse_string(s0, st.argv[DigitVal(ch) + 1]))
            ELSE eat(s0)
       ELSE CASE ch = "$" -> eat([s0 EXCEPT !.dest = b_adduint(@, st.pid)])
              [] ch = "!" ->
                    eat(IF st.last_bg_pid > 0
                        THEN [s0 EXCEPT !.dest = b_adduint(@, st.last_bg_pid)]
                        ELSE s0)
              [] ch = "?" ->
                    eat([s0 EXCEPT !.dest = b_adduint(@, st.last_return_code)])
              [] ch = "#" ->
                    eat([s0 EXCEPT
                           !.dest = b_adduint(@, IF Len(st.argv) # 0
                                                 THEN Len(st.argv) - 1 ELSE 0)])
              [] ch = "{" ->
                    LET t == ReadUntil(b_getch(s0.inp)[2], "}", <<>>)
                        s1 == [s0 EXCEPT
                                 !.dest = AddAll(b_addchr(@,
                                                     SPECIAL_VAR_SYMBOL), t[2]),
                                 !.ctx = BumpSp(@), !.inp = t[3]]
                    IN IF t[1] # "}" THEN [syntax(s1) EXCEPT !.ret = 1]
                       ELSE [s1 EXCEPT
                               !.dest = b_addchr(@, SPECIAL_VAR_SYMBOL)]
              [] ch = "(" ->
                    [process_command_subs(
                         [s0 EXCEPT !.inp = b_getch(s0.inp)[2]], ")")
                     EXCEPT !.ret = 0]
              [] ch = "*" -> [DollarStar(s0, 1) EXCEPT !.ret = 0]
              [] ch \in {"@", "-", "_"} -> [syntax(s0) EXCEPT !.ret = 1]
              [] OTHER -> [s0 EXCEPT !.dest = b_addqchr(@, "$", @.quote)]

\* The two redirection cases of parse_stream's switch, after
\* redirect_opt_num (fd) and done_word (s2).
RedirSetup(s2, fd, ch, next) ==
    LET style == IF ch = ">"
                 THEN (IF next = ">" THEN REDIRECT_APPEND
                       ELSE REDIRECT_OVERWRITE)
                 ELSE (IF next = "<" THEN REDIRECT_HEREIS
                       ELSE IF next = ">" THEN REDIRECT_IO
                       ELSE REDIRECT_INPUT)
        two == IF ch = ">" THEN next = ">" ELSE next \in {"<", ">"}
    IN IF next = "(" THEN [syntax(s2) EXCEPT !.rc = 1]
       ELSE setup_redirect(IF two
                           THEN [s2 EXCEPT !.inp = b_getch(s2.inp)[2]]
                           ELSE s2,
                           fd, style)

\* The two redirection cases of parse_stream's switch.
RedirCase(s1, ch, next) ==
    RedirSetup(done_word([s1 EXCEPT !.dest = redirect_opt_num(s1.dest)[2]]),
               redirect_opt_num(s1.dest)[1], ch, next)

\* if (handle_dollar(...)) return 1; if (parse_group(...)) return 1;
ReturnOne(h) == IF h.ret # 0 THEN [h EXCEPT !.rc = 1] ELSE h

\* The switch (ch) of parse_stream.
Switch(s1, ch, next) ==
    CASE ch = "#" ->
            IF s1.dest.data = <<>> /\ ~s1.dest.quote
            THEN [s1 EXCEPT !.inp = SkipComment(s1.inp)]
            ELSE [s1 EXCEPT !.dest = b_addqchr(@, ch, @.quote)]
      [] ch = BSL ->
            IF next = EOF THEN [syntax(s1) EXCEPT !.rc = 1]
            ELSE LET g == b_getch(s1.inp)
                 IN [s1 EXCEPT
                       !.dest = b_addqchr(b_addqchr(@, BSL, @.quote),
                                          g[1], @.quote),
                       !.inp = g[2]]
      [] ch = "$" -> ReturnOne(handle_dollar(s1))
      [] ch = SQ ->
            LET t == ReadUntil(s1.inp, SQ, <<>>)
                s2 == [s1 EXCEPT !.dest = AddAll([@ EXCEPT !.nonnull = TRUE],
                                                 t[2]),
                                 !.inp = t[3]]
            IN IF t[1] = SQ THEN s2 ELSE [syntax(s2) EXCEPT !.rc = 1]
      [] ch = DQ ->
            [s1 EXCEPT !.dest.nonnull = TRUE, !.dest.quote = ~@]
      [] ch = BQ -> process_command_subs(s1, BQ)
      [] ch \in {">", "<"} -> RedirCase(s1, ch, next)
      [] ch = ";" ->
            LET s2 == done_word(s1)
            IN [s2 EXCEPT !.ctx = done_pipe(@, PIPE_SEQ)]
      [] ch = "&" ->
            LET s2 == done_word(s1)
            IN IF next = "&"
               THEN [s2 EXCEPT !.inp = b_getch(@)[2],
                               !.ctx = done_pipe(@, PIPE_AND)]
               ELSE [s2 EXCEPT !.ctx = done_pipe(@, PIPE_BG)]
      [] ch = "|" ->
            LET s2 == done_word(s1)
            IN IF next = "|"
               THEN [s2 EXCEPT !.inp = b_getch(@)[2],
                               !.ctx = done_pipe(@, PIPE_OR)]
               ELSE [s2 EXCEPT !.ctx = done_command(@)]
      [] ch \in {"(", "{"} -> ReturnOne(parse_group(s1, ch))
      [] OTHER -> [syntax(s1) EXCEPT !.rc = 1]

\* A read through a pointer that is not mapped ends the shell.
Fault(ch, out) ==
    IF ch = SEGV \/ out.crashed \/ (out.inp.over /\ out.inp.junk = SEGV)
    THEN [out EXCEPT !.rc = Faulted, !.crashed = TRUE]
    ELSE out

\* The turn of parse_stream's loop for a character of IFS, after
\* done_word (s2).
IterWord(s2, ch, end_trigger) ==
    IF s2.ret # 0 THEN [s2 EXCEPT !.rc = 1]
    ELSE IF end_trigger # NUL /\ ch = NL
    THEN [s2 EXCEPT !.ctx = done_pipe(@, PIPE_SEQ),
                    !.rc = IF ch = end_trigger /\ ~s2.dest.quote
                              /\ done_pipe(s2.ctx, PIPE_SEQ).w = RES_NONE
                           THEN 0 ELSE @]
    ELSE IF ch = end_trigger /\ ~s2.dest.quote /\ s2.ctx.w = RES_NONE
    THEN [s2 EXCEPT !.rc = 0]
    ELSE s2

\* The turn of parse_stream's loop after ch = b_getch(input) left the
\* parser in s0, with m = map[ch] and pk what b_peek(input) gives.
IterChar(s0, ch, m, pk, end_trigger) ==
    LET next == pk[1]
        s1 == [s0 EXCEPT !.inp = pk[2]]
    IN Fault(ch,
          IF ch = EOF
          THEN [s0 EXCEPT !.rc = IF end_trigger # NUL THEN -1 ELSE 0]
          ELSE IF m = 0 \/ (m \in {1, 2} /\ s1.dest.quote)
          THEN [s1 EXCEPT !.dest = b_addqchr(@, ch, @.quote)]
          ELSE IF m = 2 THEN IterWord(done_word(s1), ch, end_trigger)
          ELSE IF ch = end_trigger /\ ~s1.dest.quote /\ s1.ctx.w = RES_NONE
          THEN [s1 EXCEPT !.rc = 0]
          ELSE Switch(s1, ch, next))

IterGot(st, g, end_trigger) ==
    IterChar([st EXCEPT !.inp = g[2]], g[1], Map(st, g[1]),
             IF g[1] = NL THEN <<NUL, g[2]>> ELSE b_peek(g[2]),
             end_trigger)

\* One turn of parse_stream's while loop; rc stays Running when the loop
\* goes on.
Iter(st, end_trigger) == IterGot(st, b_getch(st.inp), end_trigger)

parse_stream(st, end_trigger) ==
    IF st.rc # Running THEN st
    ELSE parse_stream(Iter(st, end_trigger), end_trigger)

(***************************************************************************)
(* parse_stream_outer.  OuterTop is the top of its do loop, OuterBottom    *)
(* what it does with parse_stream's return value: run is whether the list  *)
(* went to run_list, list the list that did.                               *)
(***************************************************************************)
DefaultIFS == <<" ", TAB, NL>>

OuterTop(st, ifs) ==
    [st EXCEPT !.ctx = initialize_context([type |-> st.flag]),
               !.ifs = ifs, !.rc = Running, !.ret = 0,
               !.sntx = FALSE, !.subs = <<>>]

\* done_word, done_pipe and the list for run_list
OuterRun(w, c) ==
    [st |-> [w EXCEPT !.ctx = c, !.dest = b_free(@)],
     run |-> TRUE, list |-> c.pipes]

OuterWord(w) == OuterRun(w, done_pipe(w.ctx, PIPE_SEQ))

OuterBottom(st) ==
    LET s1 == IF st.rc # 1 /\ st.ctx.old_flag # {} THEN syntax(st) ELSE st
    IN IF st.rc # 1 /\ st.ctx.old_flag = {}
       THEN OuterWord(done_word(st))
       ELSE [st |-> [s1 EXCEPT !.dest = [b_free(@) EXCEPT !.quote = FALSE],
                               !.inp = ResetP(@)],
             run |-> FALSE, list |-> <<>>]

OuterLoops(st) == st.rc # -1 /\ FLAG_EXIT_FROM_LOOP \notin st.flag

\* The parser's state when parse_stream_outer(inp, flag) is entered.
ParserInit(inp, flag, ifs, g) ==
    OuterTop([inp |-> inp, dest |-> NULL_O_STRING, ctx |-> <<>>,
              flag |-> flag, ifs |-> ifs,
              argv |-> g.argv, last_return_code |-> g.last_return_code,
              last_bg_pid |-> g.last_bg_pid, pid |-> g.pid,
              utype |-> {}, outs |-> <<>>, sntx |-> FALSE, ub |-> FALSE,
              crashed |-> FALSE, subs |-> <<>>, ret |-> 0, rc |-> Running],
             ifs)

(***************************************************************************)
(* State.                                                                  *)
(*   st    the parser's state (above)                                      *)
(*   pc    where the shell is: "parse" in parse_stream, "exit" after       *)
(*         parse_stream_outer returned, "crashed" after a fault            *)
(*   hist  what the last finished statement was: the input text it         *)
(*         consumed, parse_stream's return value, whether parse_stream     *)
(*         (sntx) or parse_stream_outer as a whole (outer) printed a       *)
(*         diagnostic, whether its list went to run_list, the list, how    *)
(*         many statements have finished, and the lists                    *)
(*         generate_stream_from_list forked a child for while the          *)
(*         statement was parsed                                            *)
(*   rd    one command run in the shell process under its redirections     *)
(*   sh    the shell as it runs lists: the activations of run_list_real,   *)
(*         the children, the globals                                       *)
(***************************************************************************)
VARIABLES st, pc, hist, rd, sh

vars == <<st, pc, hist, rd, sh>>

\* What the shell starts with: global_argv, $?, $! and getpid().
Globals0 ==
    [argv |-> << <<"h">>, <<"b">> >>, last_return_code |-> 0,
     last_bg_pid |-> 0, pid |-> 7]

\* The values an uninitialized p_context.type can hold, as far as the
\* parser looks at it; what a substituted command can print; the bytes
\* found outside a string.
UTypes == {{}, {FLAG_PARSE_SEMICOLON}}
Outs == {<<>>, <<"a", NL>>, <<"a", ";">>}
JunkBytes == {NUL, "a", SEGV}

IFSValues == {DefaultIFS, <<":", NL>>}

Alphabet == {"a", " ", ":", NL, SQ, BSL, "*", ">", "&", ";"}

Strings(n) == UNION {[1..k -> Alphabet] : k \in 0..n}

Scripts ==
    { <<"e", " ", ">", "&", "x", NL>>,
      <<"t", "h", "e", "n", ";", "e", NL>>,
      <<SQ, BSL, "a", SQ, NL>>,
      <<"a", " ", " ", "b", NL>>,
      <<"i", "f", " ", "a", ";", "t", "h", "e", "n", " ", "b", ";",
        "f", "i", NL, "e", NL>>,
      <<"e", " ", "$", "@", NL, "e", NL>>,
      <<"e", " ", SQ, "a", NL>>,
      <<"e", " ", DQ, "a", NL>>,
      <<"e", ">", "a", " ", "*", NL>>,
      <<"e", " ", ">", "(", NL, "e", NL>>,
      <<"e", " ", "$", "a", " ", "$", "1", "$", "?", "$", "{", "a", "}", NL>>,
      <<"e", " ", "$", "$", "$", "!", "$", "#", "$", "*", "$", "(", "e", ")",
        NL>>,
      <<"e", " ", BQ, "a", BQ, " ", "#", "a", NL>>,
      <<"{", " ", "i", "f", " ", "a", ";", " ", "}", NL>>,
      <<"(", "e", "|", "e", ")", "<", "a", "|", "|", "e", "&", "&", "e", NL>>,
      <<"f", "o", "r", " ", "x", " ", "i", "n", " ", "a", ";", "d", "o", " ",
        "e", ";", "d", "o", "n", "e", NL>>,
      <<"d", "o", " ", "a", NL>>,
      <<"i", "f", " ", "a", ";", "t", "h", "e", "n", " ", "i", "f", " ", "b",
        ";", "t", "h", "e", "n", " ", "c", ";", "f", "i", ";", "f", "i", NL>>,
      <<"i", "f", " ", "a", ";", "f", "i", ";", "t", "h", "e", "n", NL>>,
      <<"e", " ", "2", ">", "&", "1", " ", "<", "&", "-", NL>>,
      <<"(", "e", ")", " ", "a", NL>>,
      <<"i", "f", " ", "a", ";", "t", "h", "e", "n", " ", "b", ";", "f",
        "i", " ", "c", NL>> }

ParseInputs == Strings(MaxLen) \cup Scripts

\* How much of data the stream has taken.
Offset(i) == IF i.pos - 1 > Len(i.data) THEN Len(i.data) ELSE i.pos - 1

Hist0 ==
    [start |-> 1, text |-> <<>>, rcode |-> Running, sntx |-> FALSE,
     outer |-> FALSE, run |-> FALSE, list |-> <<>>, n |-> 0,
     subs |-> <<>>]

ParseInit ==
    /\ \E s \in ParseInputs, ifs \in IFSValues :
          \E i \in {FileIn(s, NUL)} \cup {StringIn(s, j) : j \in JunkBytes} :
             st = ParserInit(i, {FLAG_PARSE_SEMICOLON}, ifs, Globals0)
    /\ pc = "parse"
    /\ hist = Hist0
    /\ rd = <<>>
    /\ sh = <<>>

\* One turn of the loop of the top-level parse_stream.
ParseIter ==
    /\ pc = "parse"
    /\ st.rc = Running
    /\ \E u \in UTypes, o \in Outs :
          st' = [Iter([st EXCEPT !.utype = u, !.outs = o], NL)
                 EXCEPT !.utype = {}, !.outs = <<>>, !.ret = 0]
    /\ UNCHANGED <<pc, hist, rd, sh>>

\* parse_stream has returned: the rest of parse_stream_outer's loop body,
\* with run_list seen only through the status it leaves in
\* last_return_code, and the top of the next turn.
\* parse_stream_outer after its parse_stream: b is what done_word and
\* done_pipe left, and the list is run or dropped.
StatementRun(b) ==
    /\ hist' = [start |-> Offset(st.inp) + 1,
                text |-> SubSeq(st.inp.data, hist.start, Offset(st.inp)),
                rcode |-> st.rc, sntx |-> st.sntx, outer |-> b.st.sntx,
                run |-> b.run, list |-> b.list, n |-> hist.n + 1,
                subs |-> st.subs]
    /\ IF OuterLoops(st)
       THEN /\ pc' = "parse"
            /\ \E code \in IF b.run THEN {0, 1} ELSE {st.last_return_code} :
                  st' = OuterTop([b.st EXCEPT !.last_return_code = code],
                                 st.ifs)
       ELSE pc' = "exit" /\ st' = b.st

StatementEnd ==
    /\ pc = "parse"
    /\ st.rc # Running
    /\ UNCHANGED <<rd, sh>>
    /\ IF st.rc = Faulted
       THEN pc' = "crashed" /\ UNCHANGED <<st, hist>>
       ELSE StatementRun(OuterBottom(st))

ParseNext == ParseIter \/ StatementEnd

SpecParse == ParseInit /\ [][ParseNext]_vars

(***************************************************************************)
(* The parser's contract.                                                  *)
(***************************************************************************)
\* The commands of a list, in order.
RECURSIVE CommandsOf(_)
CommandsOf(list) ==
    IF list = <<>> THEN <<>>
    ELSE SubSeq(Head(list).progs, 1, Head(list).num_progs)
         \o CommandsOf(Tail(list))

\* s split on the characters of seps, empty fields dropped.
RECURSIVE SplitOn(_, _, _)
SplitOn(s, seps, field) ==
    IF s = <<>> THEN (IF field = <<>> THEN <<>> ELSE <<field>>)
    ELSE IF Head(s) \in seps
         THEN (IF field = <<>> THEN <<>> ELSE <<field>>)
              \o SplitOn(Tail(s), seps, <<>>)
         ELSE SplitOn(Tail(s), seps, Append(field, Head(s)))

ReservedWords == {reserved_list[i].literal : i \in 1..Len(reserved_list)}

\* A line of ordinary and IFS characters only, that does not start with a
\* reserved word and holds no glob character.
PlainLine(text) ==
    /\ \A k \in 1..Len(text) :
          /\ Map(st, text[k]) \in {0, 2}
          /\ text[k] \notin {"*", "?", "["}
    /\ LET f == SplitOn(text, SeqToSet(st.ifs), <<>>)
       IN f # <<>> => f[1] \notin ReservedWords

\* text is 'T', alone on its line, and T holds no single quote.
QuotedWord(text) ==
    LET n == IF text # <<>> /\ Last(text) = NL THEN Len(text) - 1
             ELSE Len(text)
    IN /\ n >= 2
       /\ text[1] = SQ
       /\ text[n] = SQ
       /\ \A k \in 2..(n - 1) : text[k] # SQ

QuotedText(text) ==
    SubSeq(text, 2, (IF Last(text) = NL THEN Len(text) - 1 ELSE Len(text)) - 1)

\* C4: a statement in which a syntax error was reported is not run: its
\* list is not handed to run_list, and if parse_stream_outer goes on it
\* does so with a fresh context, an empty token buffer and no quote state.
C4_SyntaxErrorAbortsStatement ==
    [][(hist'.n = hist.n + 1 /\ hist'.outer)
          => /\ ~hist'.run
             /\ pc' = "parse" =>
                   /\ st'.ctx = initialize_context([type |-> st.flag])
                   /\ st'.dest = NULL_O_STRING]_vars

\* C5: parse_stream returns 0, -1 or 1: 0 only having stopped at the
\* newline that ends the statement, -1 only with the input exhausted, and
\* 1 whenever it reported a syntax error.
C5_ParseStreamReturn ==
    hist.n > 0 =>
       /\ hist.rcode \in {0, -1, 1}
       /\ hist.rcode = 0 => hist.text # <<>> /\ Last(hist.text) = NL
       /\ hist.rcode = -1 => hist.start > Len(st.inp.data)
       /\ hist.sntx => hist.rcode = 1

\* C6: the list parsed from a plain line (one that was read from the input,
\* not from outside it) is the one simple command whose argument vector is
\* the line split on IFS (no command for no field).
C6_PlainLineSplitsOnIFS ==
    (hist.n > 0 /\ ~st.inp.over /\ PlainLine(hist.text)) =>
       LET f == SplitOn(hist.text, SeqToSet(st.ifs), <<>>)
           c == CommandsOf(hist.list)
       IN /\ hist.run
          /\ Len(c) = (IF f = <<>> THEN 0 ELSE 1)
          /\ f # <<>> => c[1].argv = f

\* A plain line of two fields with consecutive separators between them
\* has been parsed and handed to run_list.
C6_Witness ==
    /\ hist.n > 0 /\ ~st.inp.over /\ PlainLine(hist.text) /\ hist.run
    /\ Len(SplitOn(hist.text, SeqToSet(st.ifs), <<>>)) = 2
    /\ \E k \in 1..(Len(hist.text) - 2) :
          /\ hist.text[k] \in SeqToSet(st.ifs)
          /\ hist.text[k + 1] \in SeqToSet(st.ifs)
          /\ hist.text[k + 2] \notin SeqToSet(st.ifs)

\* C7: the statement 'T' is run as the command whose only argument is T.
C7_SingleQuotedWordIsLiteral ==
    (hist.n > 0 /\ QuotedWord(hist.text)) =>
       LET c == CommandsOf(hist.list)
       IN /\ hist.run
          /\ Len(c) = 1
          /\ c[1].argv = <<QuotedText(hist.text)>>

(***************************************************************************)
(* File descriptors.  A descriptor table maps 0..MaxFd to what each        *)
(* descriptor refers to: Tty, a path, or Closed.  The file system is the   *)
(* directory of Files: a path can be opened for reading when it is there,  *)
(* and for writing always.                                                 *)
(***************************************************************************)
MaxFd == 7
Tty == <<"tty">>
Closed == <<>>

Fds0 == [fd \in 0..MaxFd |-> IF fd < 3 THEN Tty ELSE Closed]

IsOpen(fds, fd) == fd \in DOMAIN fds /\ fds[fd] # Closed

\* The lowest descriptor not in use, -1 when the table is full.
LowestFree(fds) ==
    IF \A fd \in DOMAIN fds : fds[fd] # Closed THEN -1
    ELSE CHOOSE fd \in DOMAIN fds :
            /\ fds[fd] = Closed
            /\ \A g \in DOMAIN fds : g < fd => fds[g] # Closed

\* dup, dup2, close, open: <<result, table>> or the table
dup(fds, fd) ==
    IF ~IsOpen(fds, fd) \/ LowestFree(fds) = -1 THEN <<-1, fds>>
    ELSE <<LowestFree(fds), [fds EXCEPT ![LowestFree(fds)] = fds[fd]]>>

dup2(fds, oldfd, newfd) ==
    IF ~IsOpen(fds, oldfd) \/ newfd \notin DOMAIN fds THEN fds
    ELSE [fds EXCEPT ![newfd] = fds[oldfd]]

close(fds, fd) ==
    IF fd \in DOMAIN fds THEN [fds EXCEPT ![fd] = Closed] ELSE fds

\* redir_table[type].mode is O_RDONLY or O_RDWR without O_CREAT
NeedsFile(type) == type \in {REDIRECT_INPUT, REDIRECT_HEREIS, REDIRECT_IO}

open_or_warn(fds, path, type) ==
    IF (NeedsFile(type) /\ path \notin SeqToSet(Files))
       \/ LowestFree(fds) = -1
    THEN <<-1, fds>>
    ELSE <<LowestFree(fds), [fds EXCEPT ![LowestFree(fds)] = path]>>

(***************************************************************************)
(* setup_redirects and restore_redirects.  r is [fds, squirrel, ret,       *)
(* warned, ub]: squirrel is the array of three saved descriptors, <<>> for *)
(* a NULL squirrel; ret the return value so far; warned whether            *)
(* open_or_warn printed its message; ub whether squirrel[] was written     *)
(* outside its bounds.                                                     *)
(***************************************************************************)
NoSquirrel == <<>>
Squirrel0 == <<-1, -1, -1>>

\* One turn of the loop of setup_redirects.
\* squirrel != NULL && redir->fd < 3
Squirreled(r, redir) == r.squirrel # NoSquirrel /\ redir.fd < 3

\* The dup2 and close of setup_redirects' loop body, openfd being open
\* and d what the dup into squirrel gave.
RedirectTo(r, redir, openfd, d) ==
    [r EXCEPT
       !.fds = IF openfd = -3 THEN close(d[2], openfd)
               ELSE IF redir.dup = -1
               THEN close(dup2(d[2], openfd, redir.fd), openfd)
               ELSE dup2(d[2], openfd, redir.fd),
       !.squirrel = IF Squirreled(r, redir) /\ redir.fd >= 0
                    THEN [@ EXCEPT ![redir.fd + 1] = d[1]]
                    ELSE @,
       !.ub = @ \/ (Squirreled(r, redir) /\ redir.fd < 0)]

\* setup_redirects' loop body after openfd is known: o is <<openfd, fds>>
RedirectOpened(r, redir, o) ==
    IF redir.dup = -1 /\ o[1] < 0
    THEN [r EXCEPT !.ret = 1, !.warned = TRUE]
    ELSE IF o[1] = redir.fd THEN [r EXCEPT !.fds = o[2]]
    ELSE RedirectTo(r, redir, o[1],
                    IF Squirreled(r, redir) THEN dup(o[2], redir.fd)
                    ELSE <<-1, o[2]>>)

RedirectOne(r, redir) ==
    IF redir.dup = -1 /\ redir.word = <<>> THEN r
    ELSE RedirectOpened(r, redir,
                        IF redir.dup = -1
                        THEN open_or_warn(r.fds, redir.word[1], redir.type)
                        ELSE <<redir.dup, r.fds>>)

RECURSIVE RedirectAll(_, _)
RedirectAll(r, redirects) ==
    IF redirects = <<>> \/ r.ret # 0 THEN r
    ELSE RedirectAll(RedirectOne(r, Head(redirects)), Tail(redirects))

setup_redirects(prog, squirrel, fds) ==
    RedirectAll([fds |-> fds, squirrel |-> squirrel, ret |-> 0,
                 warned |-> FALSE, ub |-> FALSE],
                prog.redirects)

RECURSIVE RestoreFrom(_, _, _)
RestoreFrom(squirrel, fds, i) ==
    IF i > 2 \/ squirrel = NoSquirrel THEN fds
    ELSE RestoreFrom(squirrel,
                     IF squirrel[i + 1] # -1
                     THEN close(dup2(fds, squirrel[i + 1], i), squirrel[i + 1])
                     ELSE fds,
                     i + 1)

restore_redirects(squirrel, fds) == RestoreFrom(squirrel, fds, 0)

(***************************************************************************)
(* A builtin (or a group that is not a subshell) run by run_pipe_real in   *)
(* the shell process: setup_redirects(child, squirrel), the command,       *)
(* restore_redirects(squirrel).  rd holds the command's redirects, the     *)
(* shell's descriptors before the command (before), the state of           *)
(* setup_redirects' loop (k redirects done, r), the descriptors the        *)
(* command ran with (during) and where run_pipe_real is (at).              *)
(***************************************************************************)
MaxRedirs == 2

Redir(type, fd, d, word) ==
    [type |-> type, fd |-> fd, dup |-> d, word |-> word]

\* <a  <n  >a  >ab  2>&1  <&-  >&x  >>a 2>a, and a redirect whose word the
\* parser never got
RedirSet ==
    { Redir(REDIRECT_INPUT, 0, -1, << <<"a">> >>),
      Redir(REDIRECT_INPUT, 0, -1, << <<"n">> >>),
      Redir(REDIRECT_OVERWRITE, 1, -1, << <<"a">> >>),
      Redir(REDIRECT_OVERWRITE, 1, -1, << <<"a", "b">> >>),
      Redir(REDIRECT_OVERWRITE, 2, 1, <<>>),
      Redir(REDIRECT_INPUT, 0, -3, <<>>),
      Redir(REDIRECT_OVERWRITE, 1, -2, <<>>),
      Redir(REDIRECT_APPEND, 2, -1, << <<"a">> >>),
      Redir(REDIRECT_OVERWRITE, 1, -1, <<>>) }

RedirLists == UNION {[1..n -> RedirSet] : n \in 0..MaxRedirs}

RedirInit ==
    /\ \E l \in RedirLists :
          rd = [redirects |-> l, before |-> Fds0, k |-> 0,
                r |-> [fds |-> Fds0, squirrel |-> Squirrel0, ret |-> 0,
                       warned |-> FALSE, ub |-> FALSE],
                during |-> Fds0, at |-> "setup"]
    /\ st = <<>> /\ pc = "redir" /\ hist = <<>> /\ sh = <<>>

\* One turn of the loop of setup_redirects.
RedirSetupStep ==
    /\ rd.at = "setup"
    /\ rd.k < Len(rd.redirects)
    /\ rd.r.ret = 0
    /\ rd' = [rd EXCEPT !.k = @ + 1,
                        !.r = RedirectOne(@, rd.redirects[rd.k + 1])]
    /\ UNCHANGED <<st, pc, hist, sh>>

\* setup_redirects has returned (its value is dropped): x->function runs.
RedirRun ==
    /\ rd.at = "setup"
    /\ rd.k = Len(rd.redirects) \/ rd.r.ret # 0
    /\ rd' = [rd EXCEPT !.at = "run", !.during = rd.r.fds]
    /\ UNCHANGED <<st, pc, hist, sh>>

RedirRestore ==
    /\ rd.at = "run"
    /\ rd' = [rd EXCEPT !.at = "done",
                        !.r.fds = restore_redirects(rd.r.squirrel, @)]
    /\ UNCHANGED <<st, pc, hist, sh>>

RedirNext == RedirSetupStep \/ RedirRun \/ RedirRestore

SpecRedir == RedirInit /\ [][RedirNext]_vars

\* What the redirects of a list ask descriptor fd to be: the word of the
\* last one that names a file for it, None without one.
RECURSIVE Asked(_, _)
Asked(redirects, fd) ==
    IF redirects = <<>> THEN <<None>>
    ELSE LET x == Last(redirects)
         IN IF x.fd = fd /\ x.dup = -1 /\ x.word # <<>> THEN x.word[1]
            ELSE Asked(Front(redirects), fd)

OnlyFiles(redirects) ==
    \A k \in 1..Len(redirects) :
       redirects[k].dup = -1 /\ redirects[k].word # <<>>

\* C8: the command runs with its redirections in effect, and after it
\* descriptors 0, 1 and 2 refer to what they referred to before it, for
\* every redirect list.
C8_RedirectsRestored ==
    /\ (rd.at = "run" /\ rd.r.ret = 0 /\ OnlyFiles(rd.redirects)) =>
          \A fd \in 0..2 :
             Asked(rd.redirects, fd) # <<None>> =>
                rd.during[fd] = Asked(rd.redirects, fd)
    /\ rd.at = "done" => \A fd \in 0..2 : rd.r.fds[fd] = rd.before[fd]

(***************************************************************************)
(* Variables.  The environment is a sequence of NAME=VALUE strings;        *)
(* top_vars is the list of struct variables, which starts as shell_ver     *)
(* alone.  NULL is the result for a name that is not there.               *)
(***************************************************************************)
NULL == <<None>>

\* strchr: the first index of ch in s, 0 when it is not there
RECURSIVE IndexFrom(_, _, _)
IndexFrom(s, ch, k) ==
    IF k > Len(s) THEN 0
    ELSE IF s[k] = ch THEN k
    ELSE IndexFrom(s, ch, k + 1)

strchr(s, ch) == IndexFrom(s, ch, 1)

NameOf(nv) == SubSeq(nv, 1, strchr(nv, "=") - 1)
ValueOf(nv) == SubSeq(nv, strchr(nv, "=") + 1, Len(nv))

is_assignment(s) ==
    /\ s # <<>>
    /\ isalpha(s[1])
    /\ strchr(s, "=") # 0
    /\ \A k \in 2..(strchr(s, "=") - 1) : isalnum(s[k]) \/ s[k] = "_"

getenv(env, name) ==
    LET found == {k \in 1..Len(env) :
                     strchr(env[k], "=") # 0 /\ NameOf(env[k]) = name}
    IN IF found = {} THEN NULL
       ELSE ValueOf(env[CHOOSE k \in found : \A j \in found : k <= j])

\* The putenv that leaves the environment as it is
putenv_nothing(env, nv) == env

putenv(env, nv) ==
    LET found == {k \in 1..Len(env) :
                     strchr(env[k], "=") # 0 /\ NameOf(env[k]) = NameOf(nv)}
    IN IF found = {} THEN Append(env, nv)
       ELSE [env EXCEPT ![CHOOSE k \in found : TRUE] = nv]

shell_ver ==
    [name |-> <<"H", "U", "S", "H", "_", "V", "E", "R", "S", "I", "O", "N">>,
     value |-> <<"0", ".", "0", "1">>, flg_export |-> 1, flg_read_only |-> 1]

VarIndex(tv, name) ==
    LET found == {k \in 1..Len(tv) : tv[k].name = name}
    IN IF found = {} THEN 0 ELSE CHOOSE k \in found : \A j \in found : k <= j

get_local_var(tv, name) ==
    IF VarIndex(tv, name) = 0 THEN NULL
    ELSE tv[VarIndex(tv, name)].value

\* lookup_param giving the name itself for a name that is not bound.
lookup_param_name(tv, env, src) ==
    IF getenv(env, src) # NULL THEN getenv(env, src)
    ELSE IF get_local_var(tv, src) # NULL THEN get_local_var(tv, src)
    ELSE src

lookup_param(tv, env, src) ==
    IF getenv(env, src) # NULL THEN getenv(env, src)
    ELSE get_local_var(tv, src)

\* set_local_var(s, flg_export): [tv, env, result, msg], msg telling
\* whether it printed "readonly variable".  For a name that is not in
\* top_vars the new struct is freed as soon as strdup(name) has succeeded,
\* and -1 is the result.
set_local_var(tv, env, s, flg_export) ==
    LET eq == strchr(s, "=")
        name == NameOf(s)
        value == ValueOf(s)
        k == VarIndex(tv, name)
        cur == tv[k]
    IN IF eq = 0 \/ eq = Len(s)
       THEN [tv |-> tv, env |-> env, result |-> -1, msg |-> FALSE]
       ELSE IF k = 0
       THEN [tv |-> tv, env |-> env, result |-> -1, msg |-> FALSE]
       ELSE IF cur.value = value
       THEN IF flg_export > 0 /\ cur.flg_export = 0
            THEN [tv |-> [tv EXCEPT ![k].flg_export = flg_export],
                  env |-> IF flg_export = 1 THEN putenv(env, s) ELSE env,
                  result |-> 0, msg |-> FALSE]
            ELSE [tv |-> tv, env |-> env, result |-> 0, msg |-> FALSE]
       ELSE IF cur.flg_read_only # 0
       THEN [tv |-> tv, env |-> env, result |-> -1, msg |-> TRUE]
       ELSE LET ex == IF flg_export > 0 \/ cur.flg_export > 1 THEN 1
                      ELSE cur.flg_export
            IN [tv |-> [tv EXCEPT ![k].value = value,
                                      ![k].flg_export = ex],
                env |-> IF ex = 1 THEN putenv(env, s) ELSE env,
                result |-> 0, msg |-> FALSE]

\* unsetenv(name)
unsetenv(env, name) ==
    SelectSeq(env, LAMBDA nv : ~(strchr(nv, "=") # 0 /\ NameOf(nv) = name))

\* unset_local_var without its test of flg_read_only
unset_local_var_any(tv, env, name) ==
    LET k == VarIndex(tv, name)
    IN IF name = NULL \/ k = 0 THEN [tv |-> tv, env |-> env, msg |-> FALSE]
       ELSE [tv |-> SubSeq(tv, 1, k - 1) \o SubSeq(tv, k + 1, Len(tv)),
             env |-> unsetenv(env, name), msg |-> FALSE]

\* unset_local_var(name): [tv, env, msg], msg telling whether it printed
\* "readonly variable".
unset_local_var(tv, env, name) ==
    LET k == VarIndex(tv, name)
    IN IF name = NULL \/ k = 0 THEN [tv |-> tv, env |-> env, msg |-> FALSE]
       ELSE IF tv[k].flg_read_only # 0
       THEN [tv |-> tv, env |-> env, msg |-> TRUE]
       ELSE [tv |-> SubSeq(tv, 1, k - 1) \o SubSeq(tv, k + 1, Len(tv)),
             env |-> IF tv[k].flg_export # 0 THEN unsetenv(env, name)
                     ELSE env,
             msg |-> FALSE]

\* insert_var_value: the text between two SPECIAL_VAR_SYMBOLs replaced by
\* the parameter's value, and then every newline by a space.
RECURSIVE ExpandVars(_, _, _)
ExpandVars(tv, env, inp) ==
    LET a == strchr(inp, SPECIAL_VAR_SYMBOL)
        rest == SubSeq(inp, a + 1, Len(inp))
        b == strchr(rest, SPECIAL_VAR_SYMBOL)
        v == lookup_param(tv, env, SubSeq(rest, 1, b - 1))
    IN IF a = 0 \/ b = 0 THEN inp
       ELSE SubSeq(inp, 1, a - 1) \o (IF v = NULL THEN <<>> ELSE v)
            \o ExpandVars(tv, env, SubSeq(rest, b + 1, Len(rest)))

\* the loop that turns every newline of the result into a space
NewlinesToSpaces(r) == [k \in 1..Len(r) |-> IF r[k] = NL THEN " " ELSE r[k]]

insert_var_value(tv, env, inp) ==
    IF strchr(inp, SPECIAL_VAR_SYMBOL) = 0 THEN inp
    ELSE NewlinesToSpaces(ExpandVars(tv, env, inp))

\* NAME=field for the fields f of one word
NameIs(name, f) == [k \in 1..Len(f) |-> name \o <<"=">> \o f[k]]

\* make_list_in: NAME=field for every space-separated field of the
\* expanded words
RECURSIVE make_list_in(_, _, _, _)
make_list_in(tv, env, inp, name) ==
    IF inp = <<>> THEN <<>>
    ELSE NameIs(name,
                SplitOn(insert_var_value(tv, env, Head(inp)), {" "}, <<>>))
         \o make_list_in(tv, env, Tail(inp), name)

\* make_string: the expanded words joined by spaces, and a newline
RECURSIVE JoinWords(_, _, _)
JoinWords(tv, env, argv) ==
    IF argv = <<>> THEN <<>>
    ELSE insert_var_value(tv, env, Head(argv))
         \o (IF Len(argv) > 1 THEN <<" ">> ELSE <<>>)
         \o JoinWords(tv, env, Tail(argv))

make_string(tv, env, argv) == JoinWords(tv, env, argv) \o <<NL>>

(***************************************************************************)
(* Processes.  procs[k] is the child with pid PidBase + k: the command it  *)
(* was forked for, whether it runs, is stopped, has died and not been      *)
(* waited for (zombie) or is gone, its exit status, whether waitpid has    *)
(* reported its stop (told), whether open_or_warn printed a message when   *)
(* it set up its redirects (warned), whether its pipe ended in & (bg), and *)
(* the statement, activation and pipe it belongs to.                       *)
(***************************************************************************)
ENABLE_HUSH_INTERACTIVE == TRUE

\* The shell's process group, its own since setup_job_control.
getpgid0 == Globals0.pid

PidBase == 10

bltins ==
    {<<"b", "g">>, <<"b", "r", "e", "a", "k">>, <<"c", "d">>, <<"c", "o", "n", "t", "i", "n", "u", "e">>, <<"e", "n", "v">>, <<"e", "v", "a", "l">>, <<"e", "x", "e", "c">>,
     <<"e", "x", "i", "t">>, <<"e", "x", "p", "o", "r", "t">>, <<"f", "g">>, <<"j", "o", "b", "s">>, <<"p", "w", "d">>, <<"r", "e", "a", "d">>, <<"r", "e", "t", "u", "r", "n">>,
     <<"s", "e", "t">>, <<"s", "h", "i", "f", "t">>, <<"t", "r", "a", "p">>, <<"u", "l", "i", "m", "i", "t">>, <<"u", "m", "a", "s", "k">>, <<"u", "n", "s", "e", "t">>, <<".">>,
     <<"h", "e", "l", "p">>}

\* The words of argv after its leading assignments.
RECURSIVE SkipAssignments(_)
SkipAssignments(argv) ==
    IF argv # <<>> /\ is_assignment(Head(argv))
    THEN SkipAssignments(Tail(argv))
    ELSE argv

\* builtin_pwd returns EXIT_SUCCESS; what the other builtins return is
\* left open.
BuiltinResults(argv) == IF argv[1] = <<"p", "w", "d">> THEN {0} ELSE {0, 1}

\* The programs execvp finds, and their exit status.
Programs == {<<"t", "r", "u", "e">>, <<"f", "a", "l", "s", "e">>, <<"e", "c", "h", "o">>, <<"s", "l", "e", "e", "p">>}

\* The status a child forked by run_pipe_real can exit with: pseudo_exec.
ExitCodes(p) ==
    LET a == SkipAssignments(p.argv)
    IN IF p.argv # <<>>
       THEN IF a = <<>> THEN {0}
            ELSE IF a[1] \in bltins THEN BuiltinResults(a)
            ELSE IF a[1] = <<"f", "a", "l", "s", "e">> THEN {1}
            ELSE IF a[1] \in Programs THEN {0}
            ELSE {1}
       ELSE IF p.group THEN {0, 1}
       ELSE {0}

\* The children a job-control signal can stop.
CanStop(p) == p.argv # <<>> /\ p.argv[1] = <<"s", "l", "e", "e", "p">>

PidsOf(pi) == {pi.progs[k].pid : k \in 1..pi.num_progs} \ {0}

\* What waitpid(-1, &status, WUNTRACED) can report.
Waitable(procs) ==
    {PidBase + k : k \in {j \in 1..Len(procs) :
                            \/ procs[j].state = "zombie"
                            \/ procs[j].state = "stop" /\ ~procs[j].told}}

NoChildren(procs) == \A k \in 1..Len(procs) : procs[k].state = "gone"

\* The child is waited for: a dead one is gone, a stop has been reported.
Reported(procs, pid) ==
    [procs EXCEPT ![pid - PidBase] =
        IF @.state = "zombie" THEN [@ EXCEPT !.state = "gone"]
        ELSE [@ EXCEPT !.told = TRUE]]

(***************************************************************************)
(* Jobs.  job_list is a sequence of copies of pipes.                       *)
(***************************************************************************)
\* The search of insert_bg_job, had it looked for the lowest id that is
\* free: one less than that id.
MaxJobId_lowest_free(jobs) ==
    (CHOOSE n \in 1..Len(jobs) + 1 :
        /\ \A j \in 1..Len(jobs) : jobs[j].jobid # n
        /\ \A m \in 1..n - 1 : \E j \in 1..Len(jobs) : jobs[j].jobid = m) - 1

RECURSIVE MaxJobId(_)
MaxJobId(jobs) ==
    IF jobs = <<>> THEN 0
    ELSE IF Head(jobs).jobid >= MaxJobId(Tail(jobs)) THEN Head(jobs).jobid
    ELSE MaxJobId(Tail(jobs))

\* insert_bg_job without its assignment to last_bg_pid
BgPid_not_recorded(thejob) == 0

\* What insert_bg_job leaves in last_bg_pid.
BgPid(thejob) == thejob.progs[1].pid

\* insert_bg_job(pi): [jobs, pi, last_bg_pid, last_jobid]
insert_bg_job(jobs, pi) ==
    LET p1 == [pi EXCEPT !.jobid = MaxJobId(jobs) + 1]
        thejob == [p1 EXCEPT !.progs = SubSeq(@, 1, pi.num_progs)]
    IN [jobs |-> Append(jobs, thejob), pi |-> p1,
        last_bg_pid |-> BgPid(thejob), last_jobid |-> thejob.jobid]

\* The first job with a process childpid, 0 without one, and the place of
\* the process in it.
JobOf(jobs, childpid) ==
    LET found == {j \in 1..Len(jobs) : childpid \in PidsOf(jobs[j])}
    IN IF found = {} THEN 0 ELSE CHOOSE j \in found : \A i \in found : j <= i

ProgOf(pi, childpid) ==
    LET found == {k \in 1..pi.num_progs : pi.progs[k].pid = childpid}
    IN IF found = {} THEN 0 ELSE CHOOSE k \in found : \A i \in found : k <= i

RemoveAt(s, j) == SubSeq(s, 1, j - 1) \o SubSeq(s, j + 1, Len(s))

\* checkjobs that deletes no job: the child is taken from its job only
JobUpdate_keeps_finished(jobs, last_jobid, childpid, dead) ==
    LET j == JobOf(jobs, childpid)
    IN [jobs |-> IF j = 0 \/ ~dead THEN jobs
                 ELSE [jobs EXCEPT ![j].running_progs = @ - 1],
        last_jobid |-> last_jobid, done |-> <<>>]

\* checkjobs from found_pi_and_prognum on, and the search before it:
\* [jobs, last_jobid, done], done the ids of the jobs printed as Done
JobUpdate(jobs, last_jobid, childpid, dead) ==
    LET j == JobOf(jobs, childpid)
        k == ProgOf(jobs[j], childpid)
        pi == jobs[j]
    IN IF ~ENABLE_HUSH_INTERACTIVE \/ j = 0
       THEN [jobs |-> jobs, last_jobid |-> last_jobid, done |-> <<>>]
       ELSE IF dead
       THEN IF pi.running_progs - 1 = 0
            THEN LET rest == RemoveAt(jobs, j)
                 IN [jobs |-> rest,
                     last_jobid |-> IF rest # <<>> THEN rest[1].jobid ELSE 0,
                     done |-> <<pi.jobid>>]
            ELSE [jobs |-> [jobs EXCEPT ![j].progs[k].pid = 0,
                                        ![j].running_progs = @ - 1],
                  last_jobid |-> last_jobid, done |-> <<>>]
       ELSE [jobs |-> [jobs EXCEPT ![j].progs[k].is_stopped = 1,
                                   ![j].stopped_progs = @ + 1],
             last_jobid |-> last_jobid, done |-> <<>>]

\* checkjobs(NULL): every child waitpid(WNOHANG) has something to report
\* about is waited for, the lowest pid first.  G is [procs, jobs,
\* last_jobid, done].
RECURSIVE checkjobs_NULL(_)
checkjobs_NULL(G) ==
    IF Waitable(G.procs) = {} THEN G
    ELSE LET childpid == CHOOSE c \in Waitable(G.procs) :
                            \A d \in Waitable(G.procs) : c <= d
             dead == G.procs[childpid - PidBase].state = "zombie"
             u == JobUpdate(G.jobs, G.last_jobid, childpid, dead)
         IN checkjobs_NULL([G EXCEPT !.procs = Reported(@, childpid),
                                     !.jobs = u.jobs,
                                     !.last_jobid = u.last_jobid,
                                     !.done = @ \o u.done])

(***************************************************************************)
(* run_list_real.  A frame is one activation of it: the list, the place    *)
(* of pi in it (Len(list) + 1 for NULL), its locals, and where it is:      *)
(* "loop" at the head of its for loop, "wait" in checkjobs(pi), "call" in  *)
(* run_pipe_real below a run_list_real that run_pipe_real called (for a    *)
(* group, with run_pipe_real's squirrel) or that parse_string_outer        *)
(* called (reparse).  rpipe is a place in the list, 0 for NULL; flist is   *)
(* the rest of the for list, <<NULL>> for NULL; wrcode is checkjobs'       *)
(* rcode; id numbers the activation and entry is where the log has the     *)
(* pipe that is running.  "fgwait" is "wait" below builtin_fg_bg, and      *)
(* fgjob then has the job it took from job_list.                           *)
(***************************************************************************)
NewFrame(list, id, by) ==
    [list |-> list, i |-> 1, at |-> "loop", rcode |-> 0, flag_skip |-> 1,
     flag_rep |-> 0, flag_restore |-> 0, if_code |-> 0, next_if_code |-> 0,
     skip_more_in_this_rmode |-> RES_XXXX, rpipe |-> 0, flist |-> <<NULL>>,
     save_name |-> <<>>, wrcode |-> 0, squirrel |-> NoSquirrel,
     id |-> id, by |-> by, entry |-> 0, fgjob |-> <<>>]

\* The check of the syntax of "for" that run_list_real starts with.
ForSyntax(list) ==
    \E k \in 1..Len(list) :
       \/ list[k].r_mode \in {RES_IN, RES_FOR} /\ k = Len(list)
       \/ /\ k < Len(list)
          /\ \/ /\ list[k].r_mode = RES_IN
                /\ list[k + 1].r_mode = RES_IN
                /\ list[k + 1].progs[1].argv # <<>>
             \/ list[k].r_mode = RES_FOR /\ list[k + 1].r_mode # RES_IN

\* pi = (flag_restore != 0) ? rpipe : pi->next
NextPipe(f) ==
    IF f.flag_restore # 0
    THEN IF f.rpipe = 0 THEN Len(f.list) + 1 ELSE f.rpipe
    ELSE f.i + 1

Continue(f) == [f |-> [f EXCEPT !.i = NextPipe(f)], run |-> FALSE]
\* A break that only goes on to the next pipe.
Break_goes_on(f) == Continue(f)
Break(f) == [f |-> [f EXCEPT !.i = Len(f.list) + 1], run |-> FALSE]

\* The turn of "for" with the list l of NAME=value still to go; g is the
\* activation with save_name and flag_rep set.
ForNext(f, g, l) ==
    IF l = <<>>
    THEN [f |-> [g EXCEPT !.flist = <<NULL>>, !.flag_rep = 0,
                          !.list[f.i].progs[1].argv[1] = g.save_name],
          skip |-> TRUE]
    ELSE [f |-> [g EXCEPT !.flist = Tail(l),
                          !.list[f.i].progs[1].argv[1] = Head(l)],
          skip |-> FALSE]

\* The body of the loop for "for": the list is made the first time, and
\* the next NAME=value takes the place of the name.
ForTurn(f, tv, env) ==
    IF f.flist = <<NULL>>
    THEN IF f.list[f.i + 1].progs[1].argv = <<>>
         THEN [f |-> f, skip |-> TRUE]
         ELSE ForNext(f,
                      [f EXCEPT !.save_name = f.list[f.i].progs[1].argv[1],
                                !.flag_rep = 1],
                      make_list_in(tv, env, f.list[f.i + 1].progs[1].argv,
                                   f.list[f.i].progs[1].argv[1]))
    ELSE ForNext(f, f, f.flist)

\* A done that never goes back to the loop's pipe.
AtDone_forgets(f, rmode) ==
    IF rmode = RES_DONE THEN [f EXCEPT !.rpipe = 0] ELSE f

\* if (rmode == RES_DONE): restore the loop's pipe or forget it
AtDone(f, rmode) ==
    IF rmode = RES_DONE
    THEN IF f.flag_rep # 0 THEN [f EXCEPT !.flag_restore = 1]
         ELSE [f EXCEPT !.rpipe = 0]
    ELSE f

\* The turn after the "for" block (c is [f, skip])
AfterFor(c, pi) ==
    IF c.skip THEN Continue(c.f)
    ELSE IF pi.r_mode = RES_IN THEN Continue(c.f)
    ELSE IF pi.r_mode = RES_DO /\ c.f.flag_rep = 0 THEN Continue(c.f)
    ELSE IF pi.num_progs = 0 THEN Continue(AtDone(c.f, pi.r_mode))
    ELSE [f |-> AtDone(c.f, pi.r_mode), run |-> TRUE]

\* The turn after flag_skip, skip_more_in_this_rmode and if_code are set
AfterIfCode(b, pi, tv, env) ==
    IF pi.r_mode = RES_THEN /\ b.if_code # 0 THEN Continue(b)
    ELSE IF pi.r_mode = RES_ELSE /\ b.if_code = 0 THEN Continue(b)
    ELSE IF pi.r_mode = RES_ELIF /\ b.if_code = 0 THEN Break(b)
    ELSE AfterFor(IF pi.r_mode = RES_FOR /\ pi.num_progs # 0
                  THEN ForTurn(b, tv, env)
                  ELSE [f |-> b, skip |-> FALSE],
                  pi)

\* The turn after the loop's pipe is noted in rpipe
AfterRpipe(a, pi, tv, env) ==
    IF pi.r_mode = a.skip_more_in_this_rmode /\ a.flag_skip # 0
    THEN Continue([a EXCEPT !.flag_skip = IF pi.followup = PIPE_SEQ
                                          THEN 0 ELSE @])
    ELSE AfterIfCode([a EXCEPT
                        !.flag_skip = 1,
                        !.skip_more_in_this_rmode = RES_XXXX,
                        !.if_code = IF pi.r_mode \in {RES_THEN, RES_ELSE}
                                    THEN a.next_if_code ELSE @],
                     pi, tv, env)

\* One turn of run_list_real's loop up to the call of run_pipe_real:
\* [f, run], run telling whether the turn calls it.
BeforePipe(f0, tv, env) ==
    AfterRpipe(IF f0.list[f0.i].r_mode \in {RES_WHILE, RES_UNTIL, RES_FOR}
               THEN [f0 EXCEPT !.flag_restore = 0,
                               !.flag_rep = IF f0.rpipe = 0 THEN 0 ELSE @,
                               !.rpipe = IF @ = 0 THEN f0.i ELSE @]
               ELSE f0,
               f0.list[f0.i], tv, env)

\* Whether a status makes run_list_real skip what follows the pipe.
SkipsMore(rcode, followup) ==
    \/ rcode = 0 /\ followup = PIPE_OR
    \/ rcode # 0 /\ followup = PIPE_AND

\* The turn after run_pipe_real and the wait: rcode is the pipe's status.
AfterPipe(f, rcode) ==
    LET pi == f.list[f.i]
        rmode == pi.r_mode
        g == [f EXCEPT
                !.rcode = rcode, !.at = "loop",
                !.next_if_code = IF rmode \in {RES_IF, RES_ELIF}
                                 THEN rcode ELSE @,
                !.flag_rep = IF rmode = RES_WHILE
                             THEN (IF rcode = 0 THEN 1 ELSE 0)
                             ELSE IF rmode = RES_UNTIL THEN rcode ELSE @,
                !.skip_more_in_this_rmode =
                    IF SkipsMore(rcode, pi.followup) THEN rmode ELSE @]
    IN [g EXCEPT !.i = NextPipe(g)]

(***************************************************************************)
(* run_pipe_real, in the pieces the actions below put together.            *)
(***************************************************************************)
single_fg(pi) == pi.num_progs = 1 /\ pi.followup # PIPE_BG

\* for (i = 0; is_assignment(argv[i]); i++)
LeadingAssignments(argv) == Len(argv) - Len(SkipAssignments(argv))

\* Which branch of run_pipe_real a pipe takes.
Branch(pi, sp) ==
    LET child == pi.progs[1]
        argv == child.argv
        i == LeadingAssignments(argv)
    IN IF single_fg(pi) /\ child.group # <<>> /\ child.subshell = 0
       THEN "group"
       ELSE IF single_fg(pi) /\ argv # <<>>
       THEN IF i # 0 /\ i = Len(argv) THEN "assign"
            ELSE IF sp # 0 THEN "reparse"
            ELSE IF argv[i + 1] \in bltins
            THEN IF argv[i + 1] = <<"e", "x", "e", "c">> /\ Len(argv) = i + 1
                 THEN "exec" ELSE "builtin"
            ELSE "fork"
       ELSE "fork"

\* what set_local_var left of [tv, env, result]
VarsOf(r) == [tv |-> r.tv, env |-> r.env]

\* The loop of the branch for assignments without a command: V is
\* [tv, env].
RECURSIVE AssignAll(_, _)
AssignAll(V, argv) ==
    IF argv = <<>> THEN V
    ELSE AssignAll(VarsOf(set_local_var(
                              V.tv, V.env,
                              insert_var_value(V.tv, V.env, Head(argv)),
                              IF get_local_var(V.tv, NameOf(Head(argv)))
                                 # NULL
                              THEN 1 ELSE 0)),
                   Tail(argv))

\* The loop that puts the assignments before a command into the shell's
\* own environment: [env, sp]
RECURSIVE PutenvLeading(_, _, _, _)
PutenvLeading(tv, env, sp, argv) ==
    IF argv = <<>> \/ ~is_assignment(Head(argv))
    THEN [env |-> env, sp |-> sp]
    ELSE LET p == insert_var_value(tv, env, Head(argv))
         IN PutenvLeading(tv, putenv(env, p),
                          IF strchr(Head(argv), SPECIAL_VAR_SYMBOL) # 0
                          THEN sp - 1 ELSE sp,
                          Tail(argv))

\* The loop that forks a child for each member of the pipe: the children
\* join procs and the pipe gets their pids.  Each child sets up its own
\* redirects and goes on to pseudo_exec whatever setup_redirects returns.
RECURSIVE ForkAll(_, _, _, _, _)
ForkAll(pi, procs, fds, tag, k) ==
    IF k > pi.num_progs THEN [pi |-> pi, procs |-> procs]
    ELSE LET child == pi.progs[k]
             r == setup_redirects(child, NoSquirrel, fds)
             pid == PidBase + Len(procs) + 1
             pgrp == IF pi.pgrp < 0 THEN pid ELSE pi.pgrp
             p == [argv |-> child.argv, group |-> child.group # <<>>,
                   pgrp |-> pgrp,
                   state |-> "run", status |-> 0, told |-> FALSE,
                   stopped |-> FALSE, warned |-> r.warned, fds |-> r.fds,
                   bg |-> pi.followup = PIPE_BG, stmt |-> tag.stmt,
                   id |-> tag.id, idx |-> tag.idx, k |-> k]
         IN ForkAll([pi EXCEPT !.progs[k].pid = pid, !.pgrp = pgrp,
                               !.running_progs = @ + 1],
                    Append(procs, p), fds, tag, k + 1)

\* checkjobs(fg_pipe) has waited for childpid, a member of fg_pipe.
FgUpdate(pi, k, dead) ==
    IF dead
    THEN [pi EXCEPT !.progs[k].pid = 0, !.running_progs = @ - 1]
    ELSE [pi EXCEPT !.progs[k].is_stopped = 1, !.stopped_progs = @ + 1]

\* checkjobs returning at the first report about a member of the pipe
FgDone_at_first_report(pi) == TRUE

\* All processes in fg pipe have exited/stopped
FgDone(pi) == pi.running_progs - pi.stopped_progs <= 0

\* update_ifs_map
IfsOf(env) ==
    IF getenv(env, <<"I", "F", "S">>) = NULL THEN DefaultIFS ELSE getenv(env, <<"I", "F", "S">>)

(***************************************************************************)
(* The shell running lists.  sh holds the activations of run_list_real     *)
(* (frames, the innermost last), the children, job_list and last_jobid,    *)
(* the shell's descriptors, its environment and top_vars, and a record of  *)
(* what happened: log has an entry for every call of run_pipe_real (the    *)
(* activation and the pipe, the branch taken, the children's pids,         *)
(* whether open_or_warn printed a message in the shell, the descriptors    *)
(* the command ran with, and the status once the pipe has one), rets the   *)
(* value every activation returned, with its list and the statement,      *)
(* done the ids of the jobs checkjobs printed as Done.  M is sh with       *)
(* last_return_code (lrc) and last_bg_pid (lbp), which the parser keeps.   *)
(***************************************************************************)
Top(S) == S.frames[Len(S.frames)]
SetTop(S, f) == [S EXCEPT !.frames[Len(S.frames)] = f]

Entry(f, how, n, warned, during) ==
    LET pi == f.list[f.i]
    IN [id |-> f.id, idx |-> f.i, stmt |-> n, how |-> how,
        r_mode |-> pi.r_mode, bg |-> pi.followup = PIPE_BG,
        argv |-> [k \in 1..pi.num_progs |-> pi.progs[k].argv],
        pids |-> [k \in 1..pi.num_progs |-> pi.progs[k].pid],
        warned |-> warned, during |-> during,
        resolved |-> FALSE, rcode |-> 0]

Logged(M, f, e) ==
    [M EXCEPT !.sh = [SetTop(@, [f EXCEPT !.entry = Len(M.sh.log) + 1])
                      EXCEPT !.log = Append(@, e)]]

\* The pipe of activation f has its status, and checkjobs(NULL) has left
\* G of the children and the jobs.
Resolved(M, f, rcode, G) ==
    [M EXCEPT
       !.lrc = rcode,
       !.sh = [SetTop(@, AfterPipe(f, rcode)) EXCEPT
                 !.log[f.entry].rcode = rcode,
                 !.log[f.entry].resolved = TRUE,
                 !.procs = G.procs, !.jobs = G.jobs,
                 !.last_jobid = G.last_jobid, !.done = G.done]]

\* run_pipe_real or checkjobs has given the pipe of the innermost
\* activation its status: the rest of the turn of run_list_real's loop.
Finish(M, rcode) ==
    Resolved(M, Top(M.sh), rcode,
             checkjobs_NULL([procs |-> M.sh.procs, jobs |-> M.sh.jobs,
                             last_jobid |-> M.sh.last_jobid,
                             done |-> M.sh.done]))

\* A run_list_real that run_pipe_real called, for a group or through
\* parse_string_outer, has returned rcode.
Returned(M, by, rcode) ==
    IF by = "group"
    THEN Finish([M EXCEPT !.sh.fds = restore_redirects(Top(M.sh).squirrel, @)],
                rcode)
    ELSE Finish(M, M.lrc)

\* run_list_real(list) is called.
Call(M, list, by) ==
    IF ForSyntax(list) THEN Returned(M, by, 1)
    ELSE [M EXCEPT !.sh.frames = Append(@, NewFrame(list, M.sh.nframes + 1,
                                                    by)),
                   !.sh.nframes = @ + 1]

\* The children of the pipe of activation g are in procs, and the call of
\* run_pipe_real is on record.
Started(M, g, n, procs) ==
    Logged([M EXCEPT !.sh.procs = procs], g,
           Entry(g, "fork", n, FALSE, M.sh.fds))

\* insert_bg_job has made the job J of a pipe that ended in &
BgStarted(M, f, n, procs, J) ==
    Finish(Started([M EXCEPT !.sh.jobs = J.jobs,
                             !.sh.last_jobid = J.last_jobid,
                             !.lbp = J.last_bg_pid],
                   [f EXCEPT !.list[f.i] = J.pi, !.at = "loop",
                             !.wrcode = 0],
                   n, procs),
           0)

\* The pipe of activation f after the loop that forks (F is [pi, procs])
ForkedAll(M, f, n, F) ==
    IF f.list[f.i].followup = PIPE_BG
    THEN IF ENABLE_HUSH_INTERACTIVE
         THEN BgStarted(M, f, n, F.procs, insert_bg_job(M.sh.jobs, F.pi))
         ELSE Finish(Started(M, [f EXCEPT !.list[f.i] = F.pi,
                                          !.at = "loop", !.wrcode = 0],
                             n, F.procs),
                     0)
    ELSE Started([M EXCEPT !.sh.tty = IF ENABLE_HUSH_INTERACTIVE
                                      THEN F.pi.pgrp ELSE @],
                 [f EXCEPT !.list[f.i] = F.pi, !.at = "wait", !.wrcode = 0],
                 n, F.procs)

\* The pipe has been forked.
Forked(M, f, n) ==
    ForkedAll(M, f, n,
              ForkAll(f.list[f.i], M.sh.procs, M.sh.fds,
                      [stmt |-> n, id |-> f.id, idx |-> f.i], 1))

\* The branch for a group in braces: r is what setup_redirects left.
RunGroup(M, f, n, r) ==
    Call(Logged([M EXCEPT !.sh.fds = r.fds],
                [f EXCEPT !.at = "call", !.squirrel = r.squirrel],
                Entry(f, "group", n, r.warned, r.fds)),
         f.list[f.i].progs[1].group, "group")

\* The branch for assignments without a command: V is what the loop of
\* set_local_var left.
RunAssign(M, f, n, V) ==
    Finish(Logged([M EXCEPT !.sh.top_vars = V.tv, !.sh.env = V.env],
                  f, Entry(f, "assign", n, FALSE, M.sh.fds)),
           0)

\* parse_string_outer after done_word and done_pipe (b)
ReparsedList(M, b) ==
    IF b.run THEN Call(M, b.list, "reparse")
    ELSE Returned(M, "reparse", M.lrc)

\* parse_string_outer after its parse_stream (p)
Reparsed(M, p) ==
    IF p.rc = Faulted THEN [M EXCEPT !.crashed = TRUE]
    ELSE ReparsedList(M, OuterBottom(p))

\* The branch for words with a variable in them: the string str goes to
\* parse_string_outer.
RunReparse(M, f, n, str, u) ==
    Reparsed(Logged(M, [f EXCEPT !.at = "call"],
                    Entry(f, "reparse", n, FALSE, M.sh.fds)),
             parse_stream(
                 [OuterTop([st EXCEPT
                              !.inp = StringIn(str, NUL),
                              !.flag = {FLAG_EXIT_FROM_LOOP, FLAG_REPARSING},
                              !.dest = NULL_O_STRING],
                           IfsOf(M.sh.env))
                  EXCEPT !.utype = u],
                 NL))

\* The branches for exec without a command and for the other builtins:
\* r is what setup_redirects left, code what the builtin returns.
RunBuiltin(M, f, br, n, r, code) ==
    Finish(Logged([M EXCEPT
                     !.sh.fds = IF br = "exec" THEN r.fds
                                ELSE restore_redirects(r.squirrel, r.fds)],
                  f, Entry(f, br, n, r.warned, r.fds)),
           IF br = "exec" THEN 0 ELSE code)

(***************************************************************************)
(* builtin_fg_bg.                                                          *)
(***************************************************************************)
\* The shell has a controlling terminal: hush_main found stdin and stdout
\* to be one, with no script named.
interactive_fd == ENABLE_HUSH_INTERACTIVE

RECURSIVE LeadingDigits(_)
LeadingDigits(w) ==
    IF w = <<>> \/ ~isdigit(Head(w)) THEN <<>>
    ELSE <<Head(w)>> \o LeadingDigits(Tail(w))

RECURSIVE SkipSpace(_)
SkipSpace(w) ==
    IF w # <<>> /\ Head(w) \in {" ", TAB, NL} THEN SkipSpace(Tail(w)) ELSE w

\* sscanf(arg, "%%%d", &jobnum): n is what it returns
ScanJobnum(arg) ==
    LET rest == IF arg # <<>> /\ Head(arg) = "%" THEN SkipSpace(Tail(arg))
                ELSE <<>>
        sign == IF rest # <<>> /\ Head(rest) \in {"+", "-"}
                THEN <<Head(rest)>> ELSE <<>>
        ds == LeadingDigits(SubSeq(rest, Len(sign) + 1, Len(rest)))
    IN IF ds = <<>> THEN [n |-> 0, jobnum |-> 0]
       ELSE [n |-> 1,
             jobnum |-> IF sign = <<"-">> THEN 0 - atoi(ds) ELSE atoi(ds)]

\* The place in job_list of the first job with the id, 0 without one.
JobWithId(jobs, id) ==
    LET found == {j \in 1..Len(jobs) : jobs[j].jobid = id}
    IN IF found = {} THEN 0 ELSE CHOOSE j \in found : \A i \in found : j <= i

\* The search of builtin_fg_bg: the place of the job in job_list, 0 where
\* it returns EXIT_FAILURE.
FgBgJob(jobs, last_jobid, argv) ==
    IF Len(argv) = 1 THEN JobWithId(jobs, last_jobid)
    ELSE IF ScanJobnum(argv[2]).n # 1 THEN 0
    ELSE JobWithId(jobs, ScanJobnum(argv[2]).jobnum)

\* The processes kill(-pgrp, sig) finds.
Members(procs, pgrp) ==
    {k \in 1..Len(procs) : procs[k].pgrp = pgrp /\ procs[k].state # "gone"}

\* The SIGCONT that never reaches the processes
SIGCONT_not_sent(procs, pgrp) == procs

\* kill(-pgrp, SIGCONT)
SIGCONT(procs, pgrp) ==
    [k \in 1..Len(procs) |->
        IF procs[k].pgrp = pgrp /\ procs[k].state = "stop"
        THEN [procs[k] EXCEPT !.state = "run", !.told = FALSE]
        ELSE procs[k]]

\* The loop that revives the processes of the job
Revived(pi) ==
    [pi EXCEPT !.stopped_progs = 0,
               !.progs = [k \in 1..Len(@) |-> [@[k] EXCEPT !.is_stopped = 0]]]

\* remove_bg_job of the job at place j: [jobs, last_jobid]
remove_bg_job(jobs, j) ==
    [jobs |-> RemoveAt(jobs, j),
     last_jobid |-> IF RemoveAt(jobs, j) # <<>>
                    THEN RemoveAt(jobs, j)[1].jobid ELSE 0]

\* fg after kill: the job is off job_list, and checkjobs_and_fg_shell
\* waits for it.
FgWaits(M, f, n, r, pi, R) ==
    Logged([M EXCEPT !.sh.jobs = R.jobs, !.sh.last_jobid = R.last_jobid],
           [f EXCEPT !.at = "fgwait", !.fgjob = <<Revived(pi)>>,
                     !.squirrel = r.squirrel, !.wrcode = 0],
           Entry(f, "builtin", n, r.warned, r.fds))

\* kill has found no process: delete_finished_bg_job
FgBgGone(M, f, n, r, R) ==
    RunBuiltin([M EXCEPT !.sh.jobs = R.jobs, !.sh.last_jobid = R.last_jobid],
               f, "builtin", n, r, 0)

\* builtin_fg_bg from found on: pi is the job, at place j of job_list, and
\* fg tells fg from bg.
FgBgFound(M, f, n, r, j, pi, fg) ==
    IF Members(M.sh.procs, pi.pgrp) = {}
    THEN FgBgGone(M, f, n, r, remove_bg_job(M.sh.jobs, j))
    ELSE IF fg
    THEN FgWaits([M EXCEPT !.sh.procs = SIGCONT(@, pi.pgrp)], f, n, r, pi,
                 remove_bg_job(M.sh.jobs, j))
    ELSE RunBuiltin([M EXCEPT !.sh.procs = SIGCONT(@, pi.pgrp),
                              !.sh.jobs[j] = Revived(pi)],
                    f, "builtin", n, r, 0)

\* builtin_fg_bg(argv) under run_pipe_real, which has set up the redirects
\* (r): j is what the search for the job found.
builtin_fg_bg(M, f, n, r, argv, j) ==
    IF ~interactive_fd \/ j = 0 THEN RunBuiltin(M, f, "builtin", n, r, 1)
    ELSE FgBgFound([M EXCEPT
                      !.sh.fds = r.fds,
                      !.sh.tty = IF Head(argv[1]) = "f"
                                 THEN M.sh.jobs[j].pgrp ELSE @],
                   f, n, r, j, M.sh.jobs[j], Head(argv[1]) = "f")

\* The command is fg or bg.
IsFgBg(argv) ==
    ENABLE_HUSH_INTERACTIVE
       /\ SkipAssignments(argv)[1] \in {<<"f", "g">>, <<"b", "g">>}

\* builtin_unset(argv) under run_pipe_real: V is what unset_local_var
\* left.
builtin_unset(M, f, n, r, V) ==
    RunBuiltin([M EXCEPT !.sh.top_vars = V.tv, !.sh.env = V.env],
               f, "builtin", n, r, 0)

IsUnset(argv) == SkipAssignments(argv)[1] = <<"u", "n", "s", "e", "t">>

\* argv[1], NULL where argv ends before it
Argv1(argv) == IF Len(argv) > 1 THEN argv[2] ELSE NULL

\* The builtins whose functions are followed: what the others do and
\* return is left open.
Followed(argv) == IsFgBg(argv) \/ IsUnset(argv)

\* run_pipe_real from the branch br on: M has the environment the leading
\* assignments were put into, f the count of words left to expand.
RunBranch(M, f, br, u, code, n) ==
    LET child == f.list[f.i].progs[1]
        argv == child.argv
    IN CASE br = "group" ->
              RunGroup(M, f, n, setup_redirects(child, Squirrel0, M.sh.fds))
         [] br = "assign" ->
              RunAssign(M, f, n,
                        AssignAll([tv |-> M.sh.top_vars, env |-> M.sh.env],
                                  argv))
         [] br = "reparse" ->
              RunReparse(M, f, n,
                         make_string(M.sh.top_vars, M.sh.env,
                                     SubSeq(argv,
                                            LeadingAssignments(argv) + 1,
                                            Len(argv))),
                         u)
         [] br = "builtin" /\ IsFgBg(argv) ->
              builtin_fg_bg(M, f, n,
                            setup_redirects(child, Squirrel0, M.sh.fds),
                            SkipAssignments(argv),
                            FgBgJob(M.sh.jobs, M.sh.last_jobid,
                                    SkipAssignments(argv)))
         [] br = "builtin" /\ IsUnset(argv) ->
              builtin_unset(M, f, n,
                            setup_redirects(child, Squirrel0, M.sh.fds),
                            unset_local_var(M.sh.top_vars, M.sh.env,
                                            Argv1(SkipAssignments(argv))))
         [] br \in {"exec", "builtin"} /\ ~(br = "builtin" /\ Followed(argv)) ->
              RunBuiltin(M, f, br, n,
                         setup_redirects(child,
                                         IF br = "exec" THEN NoSquirrel
                                         ELSE Squirrel0,
                                         M.sh.fds),
                         code)
         [] OTHER -> Forked(M, f, n)

\* run_pipe_real after the loop that puts the leading assignments into
\* the environment (pe is [env, sp])
RunWith(M, f1, pe, u, code, n) ==
    RunBranch([M EXCEPT !.sh.env = pe.env],
              [f1 EXCEPT !.list[f1.i].progs[1].sp = pe.sp],
              Branch(f1.list[f1.i], pe.sp), u, code, n)

run_pipe_real(M, f1, u, code, n) ==
    LET child == f1.list[f1.i].progs[1]
    IN RunWith(M, f1,
               IF single_fg(f1.list[f1.i]) /\ child.argv # <<>>
                  /\ Branch(f1.list[f1.i], child.sp) \notin {"group", "assign"}
               THEN PutenvLeading(M.sh.top_vars, M.sh.env, child.sp,
                                  child.argv)
               ELSE [env |-> M.sh.env, sp |-> child.sp],
               u, code, n)

\* The turn after BeforePipe (pre is [f, run])
TurnFrom(M, pre, u, code, n) ==
    IF ~pre.run THEN [M EXCEPT !.sh = SetTop(@, pre.f)]
    ELSE run_pipe_real(M,
                       [pre.f EXCEPT !.list[pre.f.i].pgrp = -1,
                                     !.list[pre.f.i].running_progs = 0,
                                     !.list[pre.f.i].stopped_progs = 0],
                       u, code, n)

\* One turn of run_list_real's loop for the innermost activation, as far
\* as run_pipe_real takes it without waiting: u is what an uninitialized
\* p_context.type holds if the words are parsed again, code what a
\* builtin returns, n the statement.
Turn(M, u, code, n) ==
    TurnFrom(M, BeforePipe(Top(M.sh), M.sh.top_vars, M.sh.env), u, code, n)

\* A child that is no member of the foreground pipe was reported.
BgReported(M, u) ==
    [M EXCEPT !.sh.jobs = u.jobs, !.sh.last_jobid = u.last_jobid,
              !.sh.done = @ \o u.done]

\* The pipe that checkjobs(fg_pipe) of activation f waits for.
FgPipe(f) == IF f.at = "fgwait" THEN f.fgjob[1] ELSE f.list[f.i]

SetFgPipe(f, pi, wr) ==
    IF f.at = "fgwait" THEN [f EXCEPT !.fgjob = <<pi>>, !.wrcode = wr]
    ELSE [f EXCEPT !.list[f.i] = pi, !.wrcode = wr]

\* checkjobs(fg_pipe) has returned wr: checkjobs_and_fg_shell takes the
\* terminal back, and builtin_fg_bg returns to run_pipe_real, which
\* restores the descriptors.
WaitDone(M, wr) ==
    Finish([M EXCEPT
              !.sh.tty = IF ENABLE_HUSH_INTERACTIVE THEN getpgid0 ELSE @,
              !.sh.fds = IF Top(M.sh).at = "fgwait"
                         THEN restore_redirects(Top(M.sh).squirrel, @)
                         ELSE @],
           wr)

\* The foreground pipe has stopped with children left: insert_bg_job has
\* made the job J of it.
FgStopped(M, f, wr, J) ==
    WaitDone([M EXCEPT
                !.sh = [SetTop(@, SetFgPipe(f, J.pi, wr))
                        EXCEPT !.jobs = J.jobs, !.last_jobid = J.last_jobid],
                !.lbp = J.last_bg_pid],
             wr)

\* A member of the foreground pipe was reported: pi1 is the pipe after
\* it, wr the status so far.
FgReported(M, f, pi1, wr) ==
    IF FgDone(pi1)
    THEN IF ENABLE_HUSH_INTERACTIVE /\ pi1.running_progs # 0
         THEN FgStopped(M, f, wr, insert_bg_job(M.sh.jobs, pi1))
         ELSE WaitDone([M EXCEPT !.sh = SetTop(@, SetFgPipe(f, pi1, wr))],
                       wr)
    ELSE [M EXCEPT !.sh = SetTop(@, SetFgPipe(f, pi1, wr))]

\* waitpid has reported childpid, the k-th member of the foreground pipe
\* of activation f (k = 0 if it is none), dead or stopped.
Report(M, f, childpid, k, dead) ==
    IF k # 0
    THEN FgReported([M EXCEPT !.sh.procs = Reported(@, childpid)], f,
                    FgUpdate(FgPipe(f), k, dead),
                    IF dead /\ k = FgPipe(f).num_progs
                    THEN M.sh.procs[childpid - PidBase].status
                    ELSE f.wrcode)
    ELSE BgReported([M EXCEPT !.sh.procs = Reported(@, childpid)],
                    JobUpdate(M.sh.jobs, M.sh.last_jobid, childpid, dead))

\* checkjobs(fg_pipe) of the innermost activation has waitpid's answer:
\* childpid, 0 when there is no child left.
Waited(M, childpid) ==
    IF childpid = 0 THEN WaitDone(M, Top(M.sh).wrcode)
    ELSE Report(M, Top(M.sh), childpid,
                ProgOf(FgPipe(Top(M.sh)), childpid),
                M.sh.procs[childpid - PidBase].state = "zombie")

(***************************************************************************)
(* The shell reading a script and running it.                              *)
(***************************************************************************)
ShellScripts ==
    {
      <<"e", "c", "h", "o", " ", "a", " ", "b", ";", " ", "e", "c", "h",
        "o", " ", "c", NL>>,
      <<"f", "a", "l", "s", "e", " ", "&", "&", " ", "e", "c", "h", "o",
        " ", "y", "e", "s", " ", "|", "|", " ", "e", "c", "h", "o", " ",
        "n", "o", NL>>,
      <<"f", "o", "r", " ", "x", " ", "i", "n", " ", "1", " ", "2", ";",
        " ", "d", "o", " ", "e", "c", "h", "o", " ", "$", "x", ";", " ",
        "d", "o", "n", "e", NL>>,
      <<"s", "l", "e", "e", "p", " ", "1", " ", "&", NL, "e", "c", "h",
        "o", " ", "$", "!", NL>>,
      <<"p", "w", "d", " ", ">", "a", " ", ">", "a", "b", NL>>,
      <<"{", " ", "p", "w", "d", ";", " ", "}", " ", "<", "n", NL>>,
      <<"t", "r", "u", "e", " ", "<", "n", ";", " ", "e", "c", "h", "o",
        NL>>,
      <<"p", "w", "d", " ", "<", "n", NL, "e", "c", "h", "o", NL>>,
      <<"t", "r", "u", "e", " ", "|", " ", "f", "a", "l", "s", "e", ";",
        " ", "e", "c", "h", "o", NL>>,
      <<"i", "f", " ", "f", "a", "l", "s", "e", ";", " ", "t", "h", "e",
        "n", " ", "e", "c", "h", "o", " ", "a", ";", " ", "e", "l", "s",
        "e", " ", "e", "c", "h", "o", " ", "b", ";", " ", "f", "i", NL>>,
      <<"t", "r", "u", "e", " ", "|", "|", " ", "e", "c", "h", "o", " ",
        "a", " ", "&", "&", " ", "e", "c", "h", "o", " ", "b", NL>>,
      <<"x", "=", "1", NL, "e", "c", "h", "o", " ", "$", "x", NL>>,
      <<"s", "l", "e", "e", "p", " ", "1", ";", " ", "e", "c", "h", "o",
        NL>>,
      <<"s", "l", "e", "e", "p", " ", "|", " ", "s", "l", "e", "e", "p",
        ";", " ", "e", "c", "h", "o", NL>>,
      <<"w", "h", "i", "l", "e", " ", "f", "a", "l", "s", "e", ";", " ",
        "d", "o", " ", "e", "c", "h", "o", ";", " ", "d", "o", "n", "e",
        NL>>,
      <<"s", "l", "e", "e", "p", " ", "&", NL, "f", "g", NL>>,
      <<"s", "l", "e", "e", "p", " ", "&", NL, "b", "g", NL>>,
      <<"s", "l", "e", "e", "p", " ", "|", " ", "s", "l", "e", "e", "p",
        NL, "f", "g", " ", "%", "1", NL>>,
      <<"s", "l", "e", "e", "p", " ", "&", NL, "s", "l", "e", "e", "p",
        " ", "&", NL, "s", "l", "e", "e", "p", " ", "&", NL>>,
      <<"H", "U", "S", "H", "_", "V", "E", "R", "S", "I", "O", "N", "=",
        "1", NL>>,
      <<"u", "n", "s", "e", "t", " ", "H", "U", "S", "H", "_", "V", "E",
        "R", "S", "I", "O", "N", NL>>,
      <<"e", "c", "h", "o", " ", "$", "{", "y", "}", NL>>,
      <<"e", "c", "h", "o", " ", "$", "1", NL>>,
      <<"e", "c", "h", "o", " ", "$", "#", NL>>,
      <<"e", "c", "h", "o", " ", "$", "(", "l", "s", ")", NL>>,
      <<"i", "f", " ", "c", "d", ";", " ", "t", "h", "e", "n", " ", "e",
        "c", "h", "o", " ", "a", ";", " ", "e", "l", "i", "f", " ", "c",
        "d", ";", " ", "t", "h", "e", "n", " ", "e", "c", "h", "o", " ",
        "b", ";", " ", "e", "l", "s", "e", " ", "e", "c", "h", "o", " ",
        "c", ";", " ", "f", "i", NL>>,
      <<"i", "f", " ", "c", "d", ";", " ", "t", "h", "e", "n", " ", "e",
        "c", "h", "o", " ", "a", ";", " ", "e", "l", "i", "f", " ", "c",
        "d", ";", " ", "t", "h", "e", "n", " ", "e", "c", "h", "o", " ",
        "b", ";", " ", "e", "l", "i", "f", " ", "c", "d", ";", " ", "t",
        "h", "e", "n", " ", "e", "c", "h", "o", " ", "c", ";", " ", "f",
        "i", NL>>,
      <<"w", "h", "i", "l", "e", " ", "c", "d", ";", " ", "d", "o", " ",
        "e", "c", "h", "o", ";", " ", "d", "o", "n", "e", NL>>,
      <<"u", "n", "t", "i", "l", " ", "c", "d", ";", " ", "d", "o", " ",
        "e", "c", "h", "o", ";", " ", "d", "o", "n", "e", NL>>,
      <<"e", "c", "h", "o", " ", "$", "x", " ", "|", " ", "t", "r", "u",
        "e", NL>>,
      <<"e", "c", "h", "o", " ", "$", "x", " ", "&", NL>>,
      <<"e", "c", "h", "o", " ", "$", "x", " ", ">", "a", NL>>,
      <<"p", "w", "d", " ", "$", "x", " ", ">", "a", NL>>,
      <<"f", "a", "l", "s", "e", ";", " ", "e", "c", "h", "o", " ", "$",
        "?", NL>>,
      <<"f", "a", "l", "s", "e", NL, "e", "c", "h", "o", " ", "$", "?", NL>> }

\* environ when the shell starts
Environments == {<<>>, <<<<"x", "=", "e">>>>}

Sh0(env) ==
    [frames |-> <<>>, nframes |-> 0, procs |-> <<>>, jobs |-> <<>>,
     last_jobid |-> 0, fds |-> Fds0, env |-> env, top_vars |-> <<shell_ver>>,
     log |-> <<>>, rets |-> <<>>, done |-> <<>>, tty |-> getpgid0,
     fake_mode |-> 0]

\* global_argv: hush by itself, and hush with one more word
GlobalArgvs == {<< <<"h">> >>, Globals0.argv}

\* fake_mode: 0, and what one -f makes it
FakeModes == {0, 1}

Init ==
    /\ \E s \in ShellScripts, env \in Environments, argv \in GlobalArgvs,
          fake \in FakeModes :
          /\ st = ParserInit(FileIn(s, NUL), {FLAG_PARSE_SEMICOLON},
                             IfsOf(env), [Globals0 EXCEPT !.argv = argv])
          /\ sh = [Sh0(env) EXCEPT !.fake_mode = fake]
    /\ pc = "parse"
    /\ hist = Hist0
    /\ rd = <<>>

Machine == [sh |-> sh, lrc |-> st.last_return_code,
            lbp |-> st.last_bg_pid, crashed |-> FALSE]

\* The machine's part of the next state.
Becomes(M) ==
    /\ sh' = M.sh
    /\ st' = [st EXCEPT !.last_return_code = M.lrc, !.last_bg_pid = M.lbp]
    /\ pc' = IF M.crashed THEN "crashed" ELSE pc

\* The bottom of parse_stream_outer's loop and the top of its next turn.
OuterAgain(s, env) ==
    /\ pc' = IF OuterLoops(s) THEN "parse" ELSE "exit"
    /\ st' = IF OuterLoops(s) THEN OuterTop(s, IfsOf(env)) ELSE s

\* The statement parsed into p, and b what done_word and done_pipe made
\* of it: run_list gets the list, and hands it to run_list_real unless
\* fake_mode is set.
StatementParsed(p, b) ==
    /\ hist' = [start |-> Offset(p.inp) + 1,
                text |-> SubSeq(p.inp.data, hist.start, Offset(p.inp)),
                rcode |-> p.rc, sntx |-> p.sntx, outer |-> b.st.sntx,
                run |-> b.run, list |-> b.list, n |-> hist.n + 1,
                subs |-> p.subs]
    /\ IF b.run /\ ~ForSyntax(b.list) /\ sh.fake_mode = 0
       THEN /\ pc' = "run"
            /\ st' = b.st
            /\ sh' = [sh EXCEPT
                        !.frames = <<NewFrame(b.list, sh.nframes + 1,
                                              "outer")>>,
                        !.nframes = @ + 1]
       ELSE OuterAgain(b.st, sh.env) /\ UNCHANGED sh

\* parse_stream has returned with p
StreamParsed(p) ==
    IF p.rc = Faulted
    THEN pc' = "crashed" /\ UNCHANGED <<st, hist, sh>>
    ELSE StatementParsed(p, OuterBottom(p))

\* One turn of parse_stream_outer's loop up to run_list: a statement is
\* parsed, and its list, if it has one to run, goes to run_list_real.
ReadStatement ==
    /\ pc = "parse"
    /\ \E u \in UTypes :
          StreamParsed([parse_stream([st EXCEPT !.utype = u], NL)
                        EXCEPT !.utype = {}, !.ret = 0])
    /\ UNCHANGED rd

\* How many commands a run is followed for: a loop whose guard keeps
\* succeeding is left there.
MaxLog == 8

\* One turn of run_list_real's loop.
ListStep ==
    /\ pc = "run"
    /\ Top(sh).at = "loop"
    /\ Top(sh).i <= Len(Top(sh).list)
    /\ Len(sh.log) < MaxLog
    /\ \E u \in UTypes, code \in {0, 1} :
          Becomes(Turn(Machine, u, code, hist.n))
    /\ UNCHANGED <<hist, rd>>

\* The innermost activation f has returned to the machine M without it.
ReturnTo(M, f) ==
    IF f.by = "outer"
    THEN sh' = M.sh /\ OuterAgain(st, sh.env)
    ELSE Becomes(Returned(M, f.by, f.rcode))

\* run_list_real returns rcode.
ListReturn ==
    /\ pc = "run"
    /\ Top(sh).at = "loop"
    /\ Top(sh).i > Len(Top(sh).list)
    /\ ReturnTo([Machine EXCEPT
                   !.sh.frames = Front(@),
                   !.sh.rets = Append(@, [id |-> Top(sh).id,
                                          rcode |-> Top(sh).rcode,
                                          list |-> Top(sh).list,
                                          stmt |-> hist.n])],
                Top(sh))
    /\ UNCHANGED <<hist, rd>>

\* One turn of the loop of checkjobs(fg_pipe).
CheckJobs ==
    /\ pc = "run"
    /\ Top(sh).at \in {"wait", "fgwait"}
    /\ \E childpid \in Waitable(sh.procs)
                       \cup (IF NoChildren(sh.procs) THEN {0} ELSE {}) :
          Becomes(Waited(Machine, childpid))
    /\ UNCHANGED <<hist, rd>>

\* A child exits.
ChildExit ==
    /\ pc \in {"parse", "run"}
    /\ \E k \in 1..Len(sh.procs) :
          /\ sh.procs[k].state = "run"
          /\ \E status \in ExitCodes(sh.procs[k]) :
                sh' = [sh EXCEPT !.procs[k].state = "zombie",
                                 !.procs[k].status = status]
    /\ UNCHANGED <<st, pc, hist, rd>>

\* A signal stops a child.
ChildStop ==
    /\ pc \in {"parse", "run"}
    /\ \E k \in 1..Len(sh.procs) :
          /\ sh.procs[k].state = "run"
          /\ CanStop(sh.procs[k])
          /\ sh' = [sh EXCEPT !.procs[k].state = "stop",
                              !.procs[k].stopped = TRUE]
    /\ UNCHANGED <<st, pc, hist, rd>>

\* A signal kills a stopped child.
ChildKill ==
    /\ pc \in {"parse", "run"}
    /\ \E k \in 1..Len(sh.procs) :
          /\ sh.procs[k].state = "stop"
          /\ sh' = [sh EXCEPT !.procs[k].state = "zombie"]
    /\ UNCHANGED <<st, pc, hist, rd>>

Next ==
    \/ ReadStatement
    \/ ListStep
    \/ ListReturn
    \/ CheckJobs
    \/ ChildExit
    \/ ChildStop
    \/ ChildKill

Spec == Init /\ [][Next]_vars

(***************************************************************************)
(* The executor's contract.                                                *)
(***************************************************************************)
\* The places in the log of the pipes activation id has run, in order.
EntriesOf(id) == {a \in 1..Len(sh.log) : sh.log[a].id = id}

LastEntry(id) == CHOOSE a \in EntriesOf(id) : \A b \in EntriesOf(id) : b <= a

Proc(pid) == sh.procs[pid - PidBase]

\* A pipe that was forked in the foreground and none of whose processes
\* a signal has stopped.
RanToEnd(e) ==
    /\ e.how = "fork" /\ ~e.bg /\ e.resolved
    /\ \A k \in 1..Len(e.pids) : ~Proc(e.pids[k]).stopped

\* C1: the pipes of a list outside any compound statement are started in
\* list order; when one is started, every foreground pipe the activation
\* started before it has its status, which for a forked pipe that ran to
\* its end means that all its processes are gone and the status is the
\* last process's; and run_list_real returns the status of the last pipe
\* it ran.
C1_SequentialPipes ==
    /\ \A a, b \in 1..Len(sh.log) :
          (a < b /\ sh.log[a].id = sh.log[b].id) =>
             /\ (sh.log[a].r_mode = RES_NONE /\ sh.log[b].r_mode = RES_NONE)
                   => sh.log[a].idx < sh.log[b].idx
             /\ ~sh.log[a].bg => sh.log[a].resolved
    /\ \A a \in 1..Len(sh.log) :
          RanToEnd(sh.log[a]) =>
             LET e == sh.log[a]
             IN /\ \A k \in 1..Len(e.pids) : Proc(e.pids[k]).state = "gone"
                /\ e.rcode = Proc(e.pids[Len(e.pids)]).status
    /\ \A j \in 1..Len(sh.rets) :
          LET r == sh.rets[j]
          IN IF EntriesOf(r.id) = {} THEN r.rcode = 0
             ELSE /\ sh.log[LastEntry(r.id)].resolved
                  /\ r.rcode = sh.log[LastEntry(r.id)].rcode

C1_Witness ==
    \E j \in 1..Len(sh.rets) : \E a, b \in EntriesOf(sh.rets[j].id) :
       /\ a < b
       /\ RanToEnd(sh.log[a]) /\ RanToEnd(sh.log[b])
       /\ Len(sh.log[a].pids) = 2
       /\ Proc(sh.log[a].pids[1]).status # Proc(sh.log[a].pids[2]).status

\* A list A && B || C of three simple pipes.
IsAndOr(list) ==
    /\ Len(list) >= 4
    /\ list[1].followup = PIPE_AND /\ list[2].followup = PIPE_OR
    /\ list[3].followup = PIPE_SEQ
    /\ \A k \in 1..3 : list[k].r_mode = RES_NONE /\ list[k].num_progs = 1
    /\ \A k \in 4..Len(list) : list[k].num_progs = 0

\* C2: of a list A && B || C in which A exits non-zero, B is not run, C is
\* run, and the list's status is C's.
C2_AndOrList ==
    \A j \in 1..Len(sh.rets) :
       LET r == sh.rets[j]
           es == EntriesOf(r.id)
       IN (/\ IsAndOr(r.list)
           /\ \E a \in es : sh.log[a].idx = 1 /\ sh.log[a].rcode # 0)
          => /\ {sh.log[a].idx : a \in es} = {1, 3}
             /\ \E a \in es : sh.log[a].idx = 3 /\ sh.log[a].rcode = r.rcode

\* for NAME in words; do echo $NAME; done
IsFor(list) ==
    /\ Len(list) >= 4
    /\ list[1].r_mode = RES_FOR /\ list[1].num_progs = 1
    /\ list[2].r_mode = RES_IN
    /\ list[3].r_mode = RES_DO /\ list[3].num_progs = 1
    /\ list[3].progs[1].argv
          = <<<<"e", "c", "h", "o">>, <<SPECIAL_VAR_SYMBOL>> \o list[1].progs[1].argv[1]
                          \o <<SPECIAL_VAR_SYMBOL>> >>

\* The commands forked for statement n, in the order of the forks.
RECURSIVE ForkedFor(_, _)
ForkedFor(procs, n) ==
    IF procs = <<>> THEN <<>>
    ELSE (IF Head(procs).stmt = n THEN <<Head(procs).argv>> ELSE <<>>)
         \o ForkedFor(Tail(procs), n)

\* C3: the body of a for loop runs once for every word of the list, in
\* order, with $NAME expanding to the word, and NAME keeps the last word
\* after the loop.
C3_ForLoop ==
    \A j \in 1..Len(sh.rets) :
       LET r == sh.rets[j]
           name == r.list[1].progs[1].argv[1]
           words == r.list[2].progs[1].argv
       IN IsFor(r.list) =>
             /\ ForkedFor(sh.procs, r.stmt)
                   = [k \in 1..Len(words) |-> <<<<"e", "c", "h", "o">>, words[k]>>]
             /\ words # <<>> =>
                   lookup_param(sh.top_vars, sh.env, name) = Last(words)

\* open_or_warn printed its message while the redirects of the command
\* that gives the pipe its status were set up.
OpenFailed(e) ==
    \/ e.how \in {"builtin", "group"} /\ e.warned
    \/ e.how = "fork" /\ ~e.bg /\ Proc(e.pids[Len(e.pids)]).warned

\* C9: a pipe for whose command the open of a redirect target failed has a
\* non-zero status, and the shell goes on.
C9_FailedOpenFailsCommand ==
    /\ pc # "crashed"
    /\ \A a \in 1..Len(sh.log) :
          (sh.log[a].resolved /\ OpenFailed(sh.log[a])) => sh.log[a].rcode # 0

\* The places in the log of the pipes that ended in &.
BgEntries == {a \in 1..Len(sh.log) : sh.log[a].bg /\ sh.log[a].how = "fork"}

LastBg == CHOOSE a \in BgEntries : \A b \in BgEntries : b <= a

NoneStopped == \A k \in 1..Len(sh.procs) : ~sh.procs[k].stopped

DollarBang == <<"e", "c", "h", "o", " ", "$", "!", NL>>

ReapedOf(e) ==
    {k \in 1..Len(e.pids) :
        /\ e.pids[k] # 0
        /\ sh.procs[e.pids[k] - PidBase].state # "gone"
        /\ sh'.procs[e.pids[k] - PidBase].state = "gone"}

\* What C11 says of a step taken while checkjobs(fg_pipe) waits for the
\* pipe of activation f, logged as e: pj is the pipe after the step.
FgWaitStep(f, e, pj) ==
    IF sh'.log[f.entry].resolved
    THEN /\ \A k \in 1..Len(e.pids) :
               sh'.procs[e.pids[k] - PidBase].state # "run"
         /\ LET last == e.pids[Len(e.pids)] - PidBase
            IN sh'.procs[last].state = "gone"
                  => sh'.log[f.entry].rcode = sh'.procs[last].status
         /\ (\A k \in 1..Len(e.pids) :
                ~(sh.procs[e.pids[k] - PidBase].state = "zombie"
                  /\ sh.procs[e.pids[k] - PidBase].told))
            => ((pj.jobid # f.list[f.i].jobid)
                  <=> \E k \in 1..Len(e.pids) :
                         sh.procs[e.pids[k] - PidBase].state = "stop")
    ELSE pj.running_progs
            = f.list[f.i].running_progs - Cardinality(ReapedOf(e))

\* C11: checkjobs(fg_pipe) returns only when every process of the pipe has
\* exited or is stopped; every exit it reaps takes one from running_progs;
\* it returns the exit status of the pipe's last command; and the pipe
\* becomes a job exactly when a stopped process of it is left.
C11_CheckjobsWaitsForPipe ==
    [][(pc = "run" /\ Top(sh).at = "wait")
          => FgWaitStep(Top(sh), sh.log[Top(sh).entry],
                        sh'.frames[Len(sh.frames)].list[Top(sh).i])]_vars

\* The processes of job pi that the shell has yet to reap as dead, in
\* the children procs.
Unreaped(pi, procs) ==
    {p \in PidsOf(pi) : procs[p - PidBase].state # "gone"}

\* The places in job_list of the jobs that the step takes from it.
Deleted ==
    {j \in 1..Len(sh.jobs) :
        \A i \in 1..Len(sh'.jobs) :
            PidsOf(sh'.jobs[i]) \cap PidsOf(sh.jobs[j]) = {}}

\* The ids of the jobs that the step both makes and deletes: the pipe
\* checkjobs waited for became a job, and checkjobs(NULL) after it reaped
\* the last of its processes.
MadeAndDeleted ==
    IF pc = "run" /\ Top(sh).at = "wait"
    THEN LET pj == sh'.frames[Len(sh.frames)].list[Top(sh).i]
         IN IF /\ pj.jobid # Top(sh).list[Top(sh).i].jobid
               /\ Unreaped(pj, sh'.procs) = {}
            THEN {pj.jobid} ELSE {}
    ELSE {}

\* The step is the call of checkjobs_and_fg_shell by fg, which has taken
\* its job from job_list.
FgCalled ==
    /\ pc = "run" /\ Top(sh).at = "loop"
    /\ Len(sh'.frames) = Len(sh.frames) /\ Top(sh').at = "fgwait"

\* What the step adds to the Done reports.
NewlyDone == SubSeq(sh'.done, Len(sh.done) + 1, Len(sh'.done))

BuiltinRuns(name) ==
    /\ pc = "run" /\ Len(sh'.log) = Len(sh.log) + 1
    /\ sh'.log[Len(sh'.log)].how = "builtin"
    /\ sh'.log[Len(sh'.log)].argv[1][1] = name

\* No process of the group is left stopped, and none has changed
\* otherwise than by being resumed or reaped.
Resumed(pgrp) ==
    \A k \in Members(sh.procs, pgrp) :
        /\ sh'.procs[k].state # "stop"
        /\ sh.procs[k].state = "stop" => sh'.procs[k].state = "run"

NotStopped(pi) ==
    /\ pi.stopped_progs = 0
    /\ \A k \in 1..pi.num_progs : pi.progs[k].is_stopped = 0

\* What fg does with the job pi: g is the activation after the step, e
\* the record of the command.
FgEffects(pi, g, e) ==
    /\ sh'.tty = pi.pgrp
    /\ Resumed(pi.pgrp)
    /\ \A p \in PidsOf(pi) : JobOf(sh'.jobs, p) = 0
    /\ Len(sh'.jobs) = Len(sh.jobs) - 1
    /\ g.at = "fgwait" /\ ~e.resolved
    /\ PidsOf(g.fgjob[1]) = PidsOf(pi) /\ NotStopped(g.fgjob[1])

\* What bg does with the job pi.
BgEffects(pi, g, e) ==
    /\ sh'.tty = sh.tty
    /\ Resumed(pi.pgrp)
    /\ g.at = "loop" /\ e.resolved /\ e.rcode = 0
    /\ Unreaped(pi, sh'.procs) # {}
          => /\ Len(sh'.jobs) = Len(sh.jobs)
             /\ \E i \in 1..Len(sh'.jobs) :
                   /\ sh'.jobs[i].jobid = pi.jobid
                   /\ PidsOf(sh'.jobs[i]) = Unreaped(pi, sh'.procs)
                   /\ NotStopped(sh'.jobs[i])

\* The wait of fg: the job has the terminal and is off job_list until
\* checkjobs returns, and then the shell has the terminal again and the
\* command its status.
FgWaiting(f, g) ==
    /\ sh.tty = f.fgjob[1].pgrp
    /\ \A p \in PidsOf(f.fgjob[1]) : JobOf(sh.jobs, p) = 0
    /\ g.at # "fgwait"
          => sh'.tty = getpgid0 /\ sh'.log[f.entry].resolved

\* The job fg or bg is about, if the step runs one of them and finds it.
FgBgOf(name) ==
    IF BuiltinRuns(name)
    THEN FgBgJob(sh.jobs, sh.last_jobid, sh'.log[Len(sh'.log)].argv[1])
    ELSE 0

Inserted ==
    {i \in 1..Len(sh'.jobs) :
        \A j \in 1..Len(sh.jobs) :
            PidsOf(sh.jobs[j]) \cap PidsOf(sh'.jobs[i]) = {}}

\* C14: insert_bg_job gives the new job the id one above the highest id
\* of job_list (1 if it is empty), whatever lower ids are free, so that
\* the ids of job_list are distinct and grow along the list.
C14_JobIdsGrow ==
    [][/\ \A i \in Inserted :
             /\ i = Len(sh'.jobs)
             /\ \A j \in 1..Len(sh.jobs) :
                   sh'.jobs[i].jobid > sh.jobs[j].jobid
             /\ \/ sh'.jobs[i].jobid = 1 /\ sh.jobs = <<>>
                \/ \E j \in 1..Len(sh.jobs) :
                      sh'.jobs[i].jobid = sh.jobs[j].jobid + 1
       /\ \A i, j \in 1..Len(sh'.jobs) :
             i < j => sh'.jobs[i].jobid < sh'.jobs[j].jobid]_vars

\* A job was made while a lower id was free.
C14_Witness ==
    /\ Len(sh.jobs) = 2
    /\ sh.jobs[1].jobid = 2 /\ sh.jobs[2].jobid = 3

(***************************************************************************)
(* Variables.                                                              *)
(***************************************************************************)
\* name has a binding with flg_read_only
ReadOnly(tv, name) ==
    VarIndex(tv, name) # 0 /\ tv[VarIndex(tv, name)].flg_read_only # 0

\* The step leaves the binding of name, and what the environment has for
\* it, as they are.
BindingKept(name) ==
    /\ VarIndex(sh'.top_vars, name) # 0
    /\ sh'.top_vars[VarIndex(sh'.top_vars, name)]
          = sh.top_vars[VarIndex(sh.top_vars, name)]
    /\ getenv(sh'.env, name) = getenv(sh.env, name)

\* The words of the command of assignments the step runs that give a
\* read-only name another value.
ReadOnlyAssigned ==
    IF pc = "run" /\ Len(sh'.log) = Len(sh.log) + 1
       /\ sh'.log[Len(sh'.log)].how = "assign"
    THEN {w \in {sh'.log[Len(sh'.log)].argv[1][k] :
                    k \in 1..Len(sh'.log[Len(sh'.log)].argv[1])} :
             /\ ReadOnly(sh.top_vars, NameOf(w))
             /\ get_local_var(sh.top_vars, NameOf(w)) # ValueOf(w)}
    ELSE {}

\* The read-only names the unset builtin of the step is given.
ReadOnlyUnset ==
    IF BuiltinRuns(<<"u", "n", "s", "e", "t">>)
    THEN {name \in {Argv1(sh'.log[Len(sh'.log)].argv[1])} :
             ReadOnly(sh.top_vars, name)}
    ELSE {}

\* set_local_var refuses to give the read-only name of w another value,
\* and unset_local_var to unset a read-only name: the message is printed,
\* set_local_var returns -1, and the binding stays.
Refused(w) ==
    /\ \A flg_export \in 0..2 :
          /\ set_local_var(sh.top_vars, sh.env, w, flg_export).result = -1
          /\ set_local_var(sh.top_vars, sh.env, w, flg_export).msg
    /\ BindingKept(NameOf(w))

RefusedUnset(name) ==
    /\ unset_local_var(sh.top_vars, sh.env, name).msg
    /\ BindingKept(name)

\* C15 as stated: a read-only binding rejects reassignment to another
\* value and unset, for set_local_var and unset_local_var and for the
\* commands that call them; the operation reports failure and the binding
\* keeps its name, value and flags.
C15_ReadOnlyRejects ==
    [][/\ \A w \in ReadOnlyAssigned :
             Refused(w) /\ sh'.log[Len(sh'.log)].rcode # 0
       /\ \A name \in ReadOnlyUnset :
             RefusedUnset(name) /\ sh'.log[Len(sh'.log)].rcode # 0]_vars

\* C15, amended: the binding keeps its name, value and flags, the message
\* "readonly variable" is printed and set_local_var returns -1, but the
\* command of assignments and the unset builtin return EXIT_SUCCESS.
C15_ReadOnlyKept ==
    [][/\ \A w \in ReadOnlyAssigned :
             Refused(w) /\ sh'.log[Len(sh'.log)].rcode = 0
       /\ \A name \in ReadOnlyUnset :
             RefusedUnset(name) /\ sh'.log[Len(sh'.log)].rcode = 0]_vars

\* unset was given the read-only HUSH_VERSION, which is still bound.
C15_Witness ==
    /\ \E a \in 1..Len(sh.log) :
          /\ sh.log[a].how = "builtin" /\ sh.log[a].resolved
          /\ sh.log[a].argv[1][1] = <<"u", "n", "s", "e", "t">>
          /\ ReadOnly(sh.top_vars, Argv1(sh.log[a].argv[1]))
          /\ get_local_var(sh.top_vars, Argv1(sh.log[a].argv[1]))
                = shell_ver.value

(***************************************************************************)
(* set_local_var and unset_local_var by themselves, on a table that has    *)
(* shell_ver and at most one more binding.  sh is the table, the           *)
(* environment and a record of the last call: what it was given, what it  *)
(* found and what it returned.                                             *)
(***************************************************************************)
VarValues == {<<"1">>, <<"2">>}

\* A binding of x and the environment that goes with it: a binding that
\* is exported has its NAME=VALUE in the environment.
VarTables ==
    {[tv |-> <<shell_ver>>, env |-> <<>>]}
    \cup {[tv |-> <<shell_ver,
                    [name |-> <<"x">>, value |-> v, flg_export |-> e,
                     flg_read_only |-> ro]>>,
           env |-> IF e = 0 THEN <<>> ELSE << <<"x", "=">> \o v >>] :
             v \in VarValues, e \in 0..2, ro \in 0..1}

\* The strings set_local_var is given.
VarWords ==
    {<<"x", "=">> \o v : v \in VarValues}
    \cup {<<"y", "=", "1">>, <<"x", "=">>, <<"x">>,
          shell_ver.name \o <<"=">> \o shell_ver.value}

VarsInit ==
    /\ \E T \in VarTables :
          sh = [tv |-> T.tv, env |-> T.env,
                last |-> [op |-> "none", s |-> <<>>, flg_export |-> 0,
                          tv |-> T.tv, env |-> T.env, result |-> 0,
                          msg |-> FALSE]]
    /\ st = <<>> /\ pc = "vars" /\ hist = <<>> /\ rd = <<>>

\* The call of f (what it left is r) on record
VarCalled(op, s, flg_export, r, result) ==
    /\ sh' = [tv |-> r.tv, env |-> r.env,
              last |-> [op |-> op, s |-> s, flg_export |-> flg_export,
                        tv |-> sh.tv, env |-> sh.env, result |-> result,
                        msg |-> r.msg]]
    /\ UNCHANGED <<st, pc, hist, rd>>

SetLocalVar ==
    /\ pc = "vars"
    /\ \E s \in VarWords, flg_export \in 0..2 :
          VarCalled("set", s, flg_export,
                    set_local_var(sh.tv, sh.env, s, flg_export),
                    set_local_var(sh.tv, sh.env, s, flg_export).result)

UnsetLocalVar ==
    /\ pc = "vars"
    /\ \E name \in {<<"x">>, <<"y">>, shell_ver.name, NULL} :
          VarCalled("unset", name, 0,
                    unset_local_var(sh.tv, sh.env, name), 0)

VarsNext == SetLocalVar \/ UnsetLocalVar

SpecVars == VarsInit /\ [][VarsNext]_vars

\* The last call was set_local_var with NAME=VALUE for a NAME that was
\* bound to VALUE.
SetToSame ==
    /\ sh.last.op = "set"
    /\ strchr(sh.last.s, "=") \notin {0, Len(sh.last.s)}
    /\ get_local_var(sh.last.tv, NameOf(sh.last.s)) = ValueOf(sh.last.s)

\* The binding of the name of the last call, before it and after it.
Before == sh.last.tv[VarIndex(sh.last.tv, NameOf(sh.last.s))]
After == sh.tv[VarIndex(sh.tv, NameOf(sh.last.s))]

Script == st.inp.data
Echo == <<"e", "c", "h", "o">>
EchoDollar(t) == Echo \o <<" ", "$">> \o t \o <<NL>>
Braced(name) == <<"{">> \o name \o <<"}">>

\* The names the scripts put between braces.
BracedNames == {<<"y">>}

\* name is bound neither in the environment nor in top_vars.
Unbound(name) ==
    /\ getenv(sh.env, name) = NULL
    /\ get_local_var(sh.top_vars, name) = NULL

\* Every command the shell has started so far has the words argv.
StartedWith(argv) ==
    \A a \in 1..Len(sh.log) :
       sh.log[a].how # "reparse" => sh.log[a].argv = <<argv>>

\* C17: ${NAME} with NAME bound neither in the environment nor in top_vars
\* expands to the empty string, $N for a digit N that is not below
\* global_argc expands to the empty string, and $# expands to 0 when there
\* are no positional arguments: echo is started with no argument in the
\* first two cases and with the one argument 0 in the third.
C17_UnsetExpandsToEmpty ==
    /\ \A name \in BracedNames :
          Script = EchoDollar(Braced(name)) /\ Unbound(name)
             => StartedWith(<<Echo>>)
    /\ \A d \in Digits :
          Script = EchoDollar(<<d>>) /\ DigitVal(d) >= Len(st.argv)
             => StartedWith(<<Echo>>)
    /\ Script = EchoDollar(<<"#">>) /\ Len(st.argv) <= 1
          => StartedWith(<<Echo, <<"0">> >>)

\* echo ${y} has run to its end with y not bound.
C17_Witness ==
    /\ pc = "exit"
    /\ Script = EchoDollar(Braced(<<"y">>))
    /\ Unbound(<<"y">>)
    /\ \E a \in 1..Len(sh.log) : sh.log[a].how = "fork" /\ sh.log[a].resolved


(***************************************************************************)
(* Fake mode.                                                              *)
(***************************************************************************)

\* run_list has run nothing: no activation of run_list_real, no command
\* started, no child of a pipe.
NothingRun ==
    /\ sh.frames = <<>>
    /\ sh.log = <<>>
    /\ sh.rets = <<>>
    /\ sh.procs = <<>>

\* generate_stream_from_list forked a child, which runs run_list_real on
\* the list of a command substitution, for the statement parsed last.
SubsForked == hist.subs # <<>>

\* C18 as stated: in fake mode nothing is run, command substitutions
\* included: no process is forked and no builtin or external command is
\* executed.
C18_FakeModeRunsNothing ==
    sh.fake_mode # 0 => NothingRun /\ ~SubsForked

\* In fake mode run_list itself runs nothing.
RunListFakes == sh.fake_mode # 0 => NothingRun


(***************************************************************************)
(* The shell's exit status.  hush_exit is a function when the shell is     *)
(* built with ENABLE_HUSH_INTERACTIVE and a macro when it is not; both     *)
(* builds are followed here, from a shell that has run its last pipe to    *)
(* the status its parent sees.  sh is [interactive, last_return_code, by,  *)
(* e, status]: the build, $?, who called hush_exit ("final" for hush_main, *)
(* "exit" for the exit builtin), with which exitcode, and the status the   *)
(* process ended with.                                                     *)
(***************************************************************************)

\* The low eight bits of n: what n & 0xff is, and what the parent's wait
\* sees of the int given to exit and _exit.
Low8(n) == ((n % 256) + 256) % 256

\* sigexit(sig) for sig <= 0: not a signal, _exit(- sig).
sigexit(sig) == Low8(-sig)

\* hush_exit(exitcode) in the build with ENABLE_HUSH_INTERACTIVE
\* (interactive) and in the build without.
hush_exit(interactive, exitcode) ==
    IF interactive THEN sigexit(-Low8(exitcode))
    ELSE Low8(-exitcode)

\* xatoi of a well-formed decimal number.
xatoi(s) == IF Head(s) = "-" THEN -atoi(Tail(s)) ELSE atoi(s)

\* What the last pipe can have left in last_return_code.
ReturnCodes == 0..255

\* The words of the exit builtin: alone, and with a number.
ExitArgvs ==
    {<< <<"e", "x", "i", "t">> >>}
    \cup {<< <<"e", "x", "i", "t">>, n >> : n \in {<<"0">>, <<"1">>, <<"2", "5", "5">>,
                                 <<"2", "5", "6">>, <<"-", "2">>}}

ExitInit ==
    /\ \E interactive \in BOOLEAN, code \in ReturnCodes :
          sh = [interactive |-> interactive, last_return_code |-> code,
                by |-> "none", e |-> 0, status |-> 0]
    /\ st = <<>> /\ pc = "main" /\ hist = <<>> /\ rd = <<>>

\* hush_exit(e) is called by by.
Exited(by, e) ==
    /\ sh' = [sh EXCEPT !.by = by, !.e = e,
                        !.status = hush_exit(sh.interactive, e)]
    /\ pc' = "exited"
    /\ UNCHANGED <<st, hist, rd>>

\* hush_main's final_return, with opt the 0 that parse_file_outer returned.
FinalReturn ==
    /\ pc = "main"
    /\ LET opt == 0
       IN Exited("final", IF opt # 0 THEN opt ELSE sh.last_return_code)

\* The exit builtin.
builtin_exit ==
    /\ pc = "main"
    /\ \E argv \in ExitArgvs :
          Exited("exit", IF Len(argv) = 1 THEN sh.last_return_code
                         ELSE xatoi(argv[2]))

ExitNext == FinalReturn \/ builtin_exit

SpecExit == ExitInit /\ [][ExitNext]_vars

\* C19 as stated: hush_exit(e) ends the process with the status e & 0xff,
\* so that the shell's exit status is the exit status of the last pipe it
\* ran, in the build with ENABLE_HUSH_INTERACTIVE and in the build without.
C19_ExitStatus ==
    pc = "exited"
       => /\ sh.status = Low8(sh.e)
          /\ sh.by = "final" => sh.status = sh.last_return_code

\* In the build with ENABLE_HUSH_INTERACTIVE the status is e & 0xff; in
\* the build without it is the low eight bits of -e.
ExitStatusByBuild ==
    pc = "exited"
       => sh.status = IF sh.interactive THEN Low8(sh.e) ELSE Low8(-sh.e)


(***************************************************************************)
(* if, elif and else.                                                      *)
(***************************************************************************)

\* The list activation id runs, or ran.
ListOf(id) ==
    IF \E k \in 1..Len(sh.frames) : sh.frames[k].id = id
    THEN sh.frames[CHOOSE k \in 1..Len(sh.frames) :
                      sh.frames[k].id = id].list
    ELSE sh.rets[CHOOSE k \in 1..Len(sh.rets) : sh.rets[k].id = id].list

\* The activations that run an if statement's list, and those of them
\* that have returned.
IfLists ==
    {sh.log[a].id : a \in {b \in 1..Len(sh.log) : sh.log[b].r_mode = RES_IF}}

IfListsRun ==
    {id \in IfLists : \E k \in 1..Len(sh.rets) : sh.rets[k].id = id}

\* Pipe j of list L ends a condition; the condition that the body pipe k
\* belongs to; the pipes of the else part.
EndsCond(L, j) ==
    /\ L[j].r_mode \in {RES_IF, RES_ELIF}
    /\ L[j + 1].r_mode \notin {RES_IF, RES_ELIF}

CondOf(L, k) ==
    CHOOSE j \in 1..k :
       /\ EndsCond(L, j)
       /\ \A i \in (j + 1)..k : ~EndsCond(L, i)

Conds(L) == {j \in 1..(Len(L) - 1) : EndsCond(L, j)}

\* Pipe k of activation id was run, and its status.
RanPipe(id, k) == \E a \in EntriesOf(id) : sh.log[a].idx = k

StatusOf(id, k) ==
    sh.log[CHOOSE a \in EntriesOf(id) : sh.log[a].idx = k].rcode

Failed(id, j) ==
    /\ \E a \in EntriesOf(id) : sh.log[a].idx = j /\ sh.log[a].resolved
    /\ StatusOf(id, j) # 0

Succeeded(id, j) ==
    /\ \E a \in EntriesOf(id) : sh.log[a].idx = j /\ sh.log[a].resolved
    /\ StatusOf(id, j) = 0

\* What is run of the list L of activation id is run in the list's order:
\* a condition only after every condition before it failed, a then body
\* only after its condition succeeded, the else part only after every
\* condition failed.
RunInTurn(id, L) ==
    /\ \A a, b \in EntriesOf(id) : a < b => sh.log[a].idx < sh.log[b].idx
    /\ \A k \in 1..Len(L) :
          RanPipe(id, k)
             => /\ L[k].r_mode \in {RES_IF, RES_ELIF}
                   => \A j \in Conds(L) : j < k => Failed(id, j)
                /\ L[k].r_mode = RES_THEN => Succeeded(id, CondOf(L, k))
                /\ L[k].r_mode = RES_ELSE
                   => \A j \in Conds(L) : Failed(id, j)

\* The list L of activation id, which has returned, was run as far as it
\* goes: the first condition, the body of the condition that succeeded,
\* the else part when every condition failed.
RunToEnd(id, L) ==
    /\ RanPipe(id, 1)
    /\ \A k \in 1..Len(L) :
          /\ L[k].num_progs # 0
          /\ \/ L[k].r_mode = RES_THEN /\ RanPipe(id, CondOf(L, k))
                /\ Succeeded(id, CondOf(L, k))
             \/ L[k].r_mode \in {RES_ELIF, RES_ELSE}
                /\ \A j \in Conds(L) : j < k => Failed(id, j)
          => RanPipe(id, k)

\* C20: executing if C1; then B1; elif C2; then B2; ...; else E; fi
\* evaluates the conditions in order until one exits 0, executes the body
\* of that condition and no other body, executes E only if every
\* condition exited non-zero, and evaluates no condition after the first
\* that succeeded.
C20_IfElifElse ==
    /\ \A id \in IfLists : RunInTurn(id, ListOf(id))
    /\ \A id \in IfListsRun : RunToEnd(id, ListOf(id))

\* An if statement has returned whose first condition failed and whose
\* second succeeded: the second body was run and the else part was not.
C20_Witness ==
    \E id \in IfListsRun :
       /\ Failed(id, 1)
       /\ ListOf(id)[3].r_mode = RES_ELIF /\ Succeeded(id, 3)
       /\ ListOf(id)[4].r_mode = RES_THEN /\ RanPipe(id, 4)
       /\ ListOf(id)[5].r_mode = RES_ELSE /\ ~RanPipe(id, 5)


(***************************************************************************)
(* while and until.                                                        *)
(***************************************************************************)

\* The activations that run the list of a while or until loop.
LoopLists ==
    {sh.log[a].id :
        a \in {b \in 1..Len(sh.log) :
                  sh.log[b].r_mode \in {RES_WHILE, RES_UNTIL}}}

\* The entry of activation id before entry a, 0 if a is its first.
EntryBefore(id, a) ==
    IF \E b \in EntriesOf(id) : b < a
    THEN CHOOSE b \in EntriesOf(id) :
            b < a /\ \A c \in EntriesOf(id) : c < a => c <= b
    ELSE 0

\* The guard whose evaluation is entry e lets the body run.
GuardPasses(e) ==
    /\ e.resolved
    /\ IF e.r_mode = RES_WHILE THEN e.rcode = 0 ELSE e.rcode # 0

GuardFails(e) ==
    /\ e.resolved
    /\ IF e.r_mode = RES_WHILE THEN e.rcode # 0 ELSE e.rcode = 0

IsGuard(e) == e.r_mode \in {RES_WHILE, RES_UNTIL}

\* The loop of activation id so far: the body is run only right after an
\* evaluation of the guard that lets it, the guard is evaluated first and
\* then after each run of the body, and nothing is run after an
\* evaluation that ends the loop.
LoopInTurn(id) ==
    \A a \in EntriesOf(id) :
       LET b == EntryBefore(id, a)
       IN /\ sh.log[a].r_mode = RES_DO
             => b # 0 /\ IsGuard(sh.log[b]) /\ GuardPasses(sh.log[b])
          /\ IsGuard(sh.log[a]) /\ b # 0
             => sh.log[b].r_mode = RES_DO /\ sh.log[b].resolved
          /\ IsGuard(sh.log[a]) /\ GuardFails(sh.log[a])
             => a = LastEntry(id)

\* The loop of activation id is left only by an evaluation of the guard
\* that ends it.
LoopLeft(id) ==
    (\E k \in 1..Len(sh.rets) : sh.rets[k].id = id)
       => IsGuard(sh.log[LastEntry(id)]) /\ GuardFails(sh.log[LastEntry(id)])

\* C21: while G; do B; done executes B after each evaluation of G that
\* exits 0 and leaves the loop at the first evaluation of G that exits
\* non-zero, never running B after a failing G; until does the same with
\* the test inverted; G is evaluated again before every execution of B.
C21_WhileUntil ==
    \A id \in LoopLists : LoopInTurn(id) /\ LoopLeft(id)

\* A while loop has run its body twice and was left by its third guard.
C21_Witness ==
    \E id \in LoopLists :
       /\ \E k \in 1..Len(sh.rets) : sh.rets[k].id = id
       /\ Cardinality({a \in EntriesOf(id) : sh.log[a].r_mode = RES_DO}) = 2
       /\ sh.log[LastEntry(id)].r_mode = RES_WHILE


(***************************************************************************)
(* Reserved words.                                                         *)
(***************************************************************************)

\* reserved_word at the parser's state with the word of entry r in dest.
ReservedCall(r) == reserved_word([st EXCEPT !.dest.data = r.literal])

\* Entry r may follow what the context has accepted so far.
MayFollow(r) ==
    IF FLAG_START \subseteq r.flag
    THEN st.ctx.w \notin {RES_FOR, RES_IN}
    ELSE st.ctx.w # RES_NONE /\ r.code \in st.ctx.old_flag

\* reserved_word accepts a reserved word exactly when it may follow, and
\* when it rejects one it reports a syntax error, empties dest and leaves
\* the context as it was but for w, which is RES_SNTX.
ReservedRule ==
    pc = "parse" /\ st.rc = Running
       => \A k \in 1..Len(reserved_list) :
             LET r == reserved_list[k]
                 s == ReservedCall(r)
             IN /\ s.ret = 1
                /\ MayFollow(r) <=> s.ctx.w # RES_SNTX
                /\ ~MayFollow(r)
                   => /\ s.sntx
                      /\ s.dest.data = <<>>
                      /\ s.ctx = [st.ctx EXCEPT !.w = RES_SNTX]

\* While parse_stream reads on in a statement, a context in the state
\* RES_SNTX stays in it.
SntxStays ==
    pc = "parse" /\ st.rc = Running /\ st.ctx.w = RES_SNTX
    /\ pc' = "parse" /\ st'.rc = Running
       => st'.ctx.w = RES_SNTX

\* C22 as stated: a reserved word that does not start a construct is
\* accepted only when the state is not RES_NONE and its code is in the mask
\* of the word accepted before; a word that starts one is rejected while
\* the state is RES_FOR or RES_IN; a rejection discards the word and puts
\* the context in the state RES_SNTX, which stays for the rest of the
\* statement.
C22_ReservedWord == []ReservedRule /\ [][SntxStays]_vars


(***************************************************************************)
(* The stack of parser contexts.                                           *)
(***************************************************************************)

\* The entries of reserved_list that start a construct, and those that
\* end one.
StartWords ==
    {k \in 1..Len(reserved_list) : FLAG_START \subseteq reserved_list[k].flag}

EndWords ==
    {k \in 1..Len(reserved_list) : FLAG_END \subseteq reserved_list[k].flag}

\* A start word that is accepted saves the context as it is on top of the
\* stack and goes on in a fresh context.
PushRule ==
    \A k \in StartWords :
       LET r == reserved_list[k]
           c == ReservedCall(r).ctx
       IN MayFollow(r)
          => /\ c.stack = <<[st.ctx EXCEPT !.stack = <<>>]>> \o st.ctx.stack
             /\ c.pipes = initialize_context(st.ctx).pipes
             /\ c.w = r.code /\ c.old_flag = r.flag

\* An end word that is accepted finds a context on the stack and goes on
\* in it: the context is as it was saved, but for the group of its open
\* command, which is the inner list, closed, with subshell 0.
PopRule ==
    \A k \in EndWords :
       LET r == reserved_list[k]
           c == ReservedCall(r).ctx
           saved == Head(st.ctx.stack)
       IN MayFollow(r)
          => /\ st.ctx.stack # <<>>
             /\ c.stack = Tail(st.ctx.stack)
             /\ [SetOpenChild(c, OpenChild(saved)) EXCEPT !.stack = <<>>]
                = saved
             /\ OpenChild(c).group
                = done_pipe([st.ctx EXCEPT !.w = r.code,
                                           !.old_flag = r.flag],
                            PIPE_SEQ).pipes
             /\ OpenChild(c).subshell = 0

\* C23: start words push the parser's context and end words pop it: a pop
\* only happens with a stack that is not empty, restores the context the
\* matching push saved, and makes the finished inner list the group of
\* that context's open command with subshell 0; while a statement is
\* parsed the stack is empty exactly when old_flag is 0.
C23_ContextStack ==
    pc = "parse" /\ st.rc # Faulted
       => /\ st.ctx.stack = <<>> <=> st.ctx.old_flag = {}
          /\ st.rc = Running => PushRule /\ PopRule

\* The inner if of a nested if has been closed: the parser is back in the
\* context of the outer if, where a command has the inner list as its
\* group, with the outermost context still on the stack.
C23_Witness ==
    /\ pc = "parse" /\ st.rc = Running
    /\ Len(st.ctx.stack) = 1
    /\ st.ctx.w = RES_THEN
    /\ \E i \in 1..Len(st.ctx.pipes) :
          \E j \in 1..Len(st.ctx.pipes[i].progs) :
             /\ st.ctx.pipes[i].progs[j].group # <<>>
             /\ st.ctx.pipes[i].progs[j].group[1].r_mode = RES_IF


(***************************************************************************)
(* Variable markers and the commands that are run.                         *)
(***************************************************************************)

\* The argument vectors handed to the commands of log entry e: to the
\* builtin run in the shell, and by pseudo_exec_argv to the command of
\* each forked process.
HandedOver(e) ==
    IF e.how \in {"fork", "builtin"}
    THEN {SkipAssignments(e.argv[k]) : k \in 1..Len(e.argv)}
    ELSE {}

Marked(argv) ==
    \E k \in 1..Len(argv) : strchr(argv[k], SPECIAL_VAR_SYMBOL) # 0

\* C24 as stated: every marker of a $name or ${name} in a command's words
\* is replaced by the variable's value when the words are handed to the
\* command, for a builtin run in the shell, for a single command that is
\* forked and for each stage of a forked or backgrounded pipe: no command
\* that is run gets an argument with a SPECIAL_VAR_SYMBOL in it.
C24_NoMarkerReachesCommand ==
    \A a \in 1..Len(sh.log) : \A argv \in HandedOver(sh.log[a]) : ~Marked(argv)

\* A single command in the foreground is handed no marker.
SingleFgUnmarked ==
    \A a \in 1..Len(sh.log) :
       Len(sh.log[a].argv) = 1 /\ ~sh.log[a].bg
          => \A argv \in HandedOver(sh.log[a]) : ~Marked(argv)


(***************************************************************************)
(* Assignments.                                                            *)
(***************************************************************************)

\* The step runs a command that consists of assignments only.
AssignStep ==
    /\ pc = "run"
    /\ Len(sh'.log) = Len(sh.log) + 1
    /\ sh'.log[Len(sh'.log)].how = "assign"

\* The words NAME=VALUE of that command whose NAME is not read-only (and
\* whose VALUE is a text without markers).
Assigned ==
    {w \in SeqToSet(sh'.log[Len(sh'.log)].argv[1]) :
        /\ ~ReadOnly(sh.top_vars, NameOf(w))
        /\ ValueOf(w) # <<>>
        /\ strchr(w, SPECIAL_VAR_SYMBOL) = 0}

\* After the step NAME is bound to VALUE in the shell and $NAME expands
\* to VALUE.
BoundAfter(w) ==
    /\ get_local_var(sh'.top_vars, NameOf(w)) = ValueOf(w)
    /\ lookup_param(sh'.top_vars, sh'.env, NameOf(w)) = ValueOf(w)

\* C25 as stated: a single foreground command of assignments NAME=VALUE
\* only, NAME not read-only, binds NAME to VALUE in the shell, so that a
\* later $NAME expands to VALUE, and returns success, also when NAME was
\* not bound before.
C25_AssignmentBinds ==
    [][AssignStep
          => /\ sh'.log[Len(sh'.log)].rcode = 0
             /\ \A w \in Assigned : BoundAfter(w)]_vars

\* The command returns success, and a name that top_vars did not have is
\* not bound by it.
AssignmentReturnsSuccess ==
    [][AssignStep
          => /\ sh'.log[Len(sh'.log)].rcode = 0
             /\ \A w \in Assigned :
                   get_local_var(sh.top_vars, NameOf(w)) = NULL
                      => get_local_var(sh'.top_vars, NameOf(w)) = NULL]_vars


(***************************************************************************)
(* Redirections of a command that is parsed again.                         *)
(***************************************************************************)

\* The log entries of the commands that run_pipe_real sent through
\* parse_string_outer and that were run from there: entry a is the call
\* with the markers, entry a + 1 the command in the activation it called.
ReparsedRuns ==
    {a \in 1..(Len(sh.log) - 1) :
        /\ sh.log[a].how = "reparse"
        /\ sh.log[a + 1].id > sh.log[a].id
        /\ sh.log[a + 1].how \in {"fork", "builtin"}}

\* The command of entry a as the parser made it, with its redirects.
CommandOf(a) == ListOf(sh.log[a].id)[sh.log[a].idx].progs[1]

\* The descriptors the command of entry b ran with: the shell's for a
\* builtin, the child's for a forked command.
RanWith(b) ==
    IF sh.log[b].how = "builtin" THEN sh.log[b].during
    ELSE Proc(sh.log[b].pids[1]).fds

\* What the direct path gives the command of entry a: setup_redirects on
\* its redirects, from the descriptors the shell had at the call.
DirectFds(a) ==
    setup_redirects(CommandOf(a), NoSquirrel, sh.log[a].during).fds

\* C26 as stated: a single foreground command that is parsed again for
\* the markers in its words runs with its redirections, as the direct
\* builtin and fork paths run the command with the values written out.
C26_ReparseKeepsRedirects ==
    \A a \in ReparsedRuns :
       \A fd \in 0..2 : RanWith(a + 1)[fd] = DirectFds(a)[fd]

\* A command without redirects that is parsed again runs with the
\* shell's descriptors.
ReparseKeepsShellFds ==
    \A a \in ReparsedRuns :
       CommandOf(a).redirects = <<>>
          => \A fd \in 0..2 : RanWith(a + 1)[fd] = sh.log[a].during[fd]


(***************************************************************************)
(* The output of a substituted command.                                    *)
(***************************************************************************)

\* The top-level parse_stream is about to read a backquote.
AtBackquote ==
    /\ pc = "parse"
    /\ st.rc = Running
    /\ b_getch(st.inp)[1] = BQ

\* The turn of parse_stream's loop that process_command_subs takes part
\* in, when the substituted command prints o.
Substituted(u, o) == Iter([st EXCEPT !.utype = u, !.outs = o], NL)

\* C27 as stated: the output of a command substitution is appended to the
\* current word byte for byte, its trailing newline included, and none of
\* its characters is read as shell syntax.
C27_OutputVerbatim ==
    AtBackquote =>
       \A u \in UTypes, o \in Outs :
          Substituted(u, o).rc = Running
             => Substituted(u, o).dest.data = st.dest.data \o o

\* A substituted command that prints nothing leaves the word and the
\* context as they were.
EmptyOutputKeepsWord ==
    AtBackquote =>
       \A u \in UTypes :
          Substituted(u, <<>>).rc = Running
             => /\ Substituted(u, <<>>).dest = st.dest
                /\ Substituted(u, <<>>).ctx = st.ctx

\* A command separator in the output closes the pipe that the
\* substitution stands in.
OutputSeparates ==
    AtBackquote =>
       \A u \in UTypes :
          Substituted(u, <<"a", ";">>).rc = Running
             => Len(Substituted(u, <<"a", ";">>).ctx.pipes)
                   > Len(st.ctx.pipes)


(***************************************************************************)
(* The status that $? stands for.                                          *)
(***************************************************************************)

False == <<"f", "a", "l", "s", "e">>

\* The scripts in which every echo has $? as its one argument: false and
\* echo $? in one statement, and in two.
StatusScripts ==
    {False \o <<";", " ">> \o EchoDollar(<<"?">>),
     False \o <<NL>> \o EchoDollar(<<"?">>)}

\* The echo commands that were started.
Echoes ==
    {b \in 1..Len(sh.log) :
        sh.log[b].how # "reparse" /\ sh.log[b].argv[1][1] = Echo}

\* The status of the pipe that ran last before entry b was started, and
\* of the pipe that ran last before the statement of entry b was parsed;
\* 0 when there is none.
LastBefore(b, S) ==
    IF S = {} THEN 0
    ELSE sh.log[CHOOSE a \in S : \A c \in S : c <= a].rcode

StatusBeforeCommand(b) == LastBefore(b, 1..(b - 1))

StatusBeforeStatement(b) ==
    LastBefore(b, {a \in 1..(b - 1) : sh.log[a].stmt < sh.log[b].stmt})

\* C28 as stated: $? in a command is the exit status of the pipe that
\* was run last before the command is run, a pipe of the same statement
\* included.
C28_DollarStatus ==
    Script \in StatusScripts =>
       \A b \in Echoes :
          sh.log[b].argv = << <<Echo, utoa(StatusBeforeCommand(b))>> >>

\* $? in a command is the exit status of the pipe that was run last
\* before the statement of the command was read.
DollarStatusOfStatement ==
    Script \in StatusScripts =>
       \A b \in Echoes :
          sh.log[b].argv = << <<Echo, utoa(StatusBeforeStatement(b))>> >>

\* echo $? was started after false in a statement of its own.
DollarStatusSeen ==
    /\ Script \in StatusScripts
    /\ \E b \in Echoes : b > 1 /\ sh.log[b].stmt > sh.log[b - 1].stmt


(***************************************************************************)
(* The fork loop of run_pipe_real: one pipe between each pair of           *)
(* neighbouring commands, one child per command.  sh holds the pipe being  *)
(* run (the redirects of its commands), the shell's descriptors and        *)
(* close_me list, the loop's variables i, nextin, nextout and pipefds,     *)
(* where the loop is (at), how many pipes it has made, and the children:   *)
(* each with its own descriptors, the loop's variables as they were at     *)
(* its fork, and where it is.  The children run beside the shell.          *)
(***************************************************************************)
MaxStages == 3

\* The two ends of the k-th pipe the loop makes (from 0).
PipeEnd(k, e) == <<"|", DigitSeq[k + 1], e>>
IsPipeEnd(x) == Len(x) = 3 /\ x[1] = "|"

\* pipe(pipefds): <<pipefds[0], pipefds[1], table>>, or -1 for both when
\* the table has no room
pipe(fds, k) ==
    LET r == LowestFree(fds)
        f == IF r = -1 THEN fds ELSE [fds EXCEPT ![r] = PipeEnd(k, "r")]
        w == LowestFree(f)
    IN IF r = -1 \/ w = -1 THEN <<-1, -1, fds>>
       ELSE <<r, w, [f EXCEPT ![w] = PipeEnd(k, "w")]>>

\* close_all()
RECURSIVE close_all(_, _)
close_all(fds, close_me) ==
    IF close_me = <<>> THEN fds
    ELSE close_all(close(fds, Head(close_me)), Tail(close_me))

\* The redirects a command of the pipe has: none, >a, 2>&1
StageRedirects ==
    { <<>>,
      << Redir(REDIRECT_OVERWRITE, 1, -1, << <<"a">> >>) >>,
      << Redir(REDIRECT_OVERWRITE, 2, 1, <<>>) >> }

\* The shell reads its commands from the terminal or from a file it has
\* open on descriptor 3 and marked to be closed in its children.
ScriptFile == <<"h">>
ShellTables ==
    { [fds |-> Fds0, close_me |-> <<>>],
      [fds |-> [Fds0 EXCEPT ![3] = ScriptFile], close_me |-> <<3>>] }

PipeInit ==
    /\ \E n \in 1..MaxStages, T \in ShellTables :
          \E redirects \in [1..n -> StageRedirects] :
             sh = [num_progs |-> n, redirects |-> redirects,
                   fds |-> T.fds, close_me |-> T.close_me, before |-> T.fds,
                   i |-> 0, nextin |-> 0, nextout |-> 1,
                   pipefds |-> <<-1, -1>>, at |-> "top", made |-> 0,
                   running_progs |-> 0, kids |-> <<>>]
    /\ st = <<>> /\ pc = "pipe" /\ hist = <<>> /\ rd = <<>>

\* The top of the loop body: if ((i + 1) < pi->num_progs) pipe(pipefds)
PipeMade(p) ==
    IF p.i + 1 < p.num_progs
    THEN LET m == pipe(p.fds, p.made)
         IN IF m[1] = -1 THEN [p EXCEPT !.at = "died"]
            ELSE [p EXCEPT !.fds = m[3], !.pipefds = <<m[1], m[2]>>,
                           !.nextout = m[2], !.made = @ + 1, !.at = "fork"]
    ELSE [p EXCEPT !.nextout = 1, !.pipefds[1] = -1, !.at = "fork"]

\* child->pid = fork(): the child has a copy of the shell's descriptors
\* and of the loop's variables.
ChildForked(p) ==
    [p EXCEPT
       !.kids = Append(@, [fds |-> p.fds, nextin |-> p.nextin,
                           nextout |-> p.nextout, pipefds0 |-> p.pipefds[1],
                           made |-> p.made, at |-> "child"]),
       !.running_progs = @ + 1,
       !.at = "close"]

\* The end of the loop body in the shell, without the close of nextout
ParentCloses_keeps_nextout(p) ==
    [p EXCEPT
       !.fds = IF p.nextin # 0 THEN close(@, p.nextin) ELSE @,
       !.nextin = p.pipefds[1],
       !.i = @ + 1,
       !.at = IF p.i + 1 < p.num_progs THEN "top" ELSE "done"]

\* The end of the loop body in the shell: close(nextin), close(nextout),
\* nextin = pipefds[0], and i++ with the test of the loop.
ParentCloses(p) ==
    [p EXCEPT
       !.fds = LET f == IF p.nextin # 0 THEN close(@, p.nextin) ELSE @
               IN IF p.nextout # 1 THEN close(f, p.nextout) ELSE f,
       !.nextin = p.pipefds[1],
       !.i = @ + 1,
       !.at = IF p.i + 1 < p.num_progs THEN "top" ELSE "done"]

\* The child up to its exec, with descriptor 1 left as it was
Wired_no_stdout(c, close_me, redirects) ==
    LET f0 == close_all(c.fds, close_me)
        f1 == IF c.nextin # 0
              THEN close(dup2(f0, c.nextin, 0), c.nextin) ELSE f0
        f2 == IF c.nextout # 1 THEN close(f1, c.nextout) ELSE f1
        f3 == IF c.pipefds0 # -1 THEN close(f2, c.pipefds0) ELSE f2
    IN [c EXCEPT
          !.fds = setup_redirects([redirects |-> redirects], NoSquirrel,
                                  f3).fds,
          !.at = "ready"]

\* The child up to its exec: close_all(), nextin onto 0, nextout onto 1,
\* close(pipefds[0]), setup_redirects(child, NULL).
Wired(c, close_me, redirects) ==
    LET f0 == close_all(c.fds, close_me)
        f1 == IF c.nextin # 0
              THEN close(dup2(f0, c.nextin, 0), c.nextin) ELSE f0
        f2 == IF c.nextout # 1
              THEN close(dup2(f1, c.nextout, 1), c.nextout) ELSE f1
        f3 == IF c.pipefds0 # -1 THEN close(f2, c.pipefds0) ELSE f2
    IN [c EXCEPT
          !.fds = setup_redirects([redirects |-> redirects], NoSquirrel,
                                  f3).fds,
          !.at = "ready"]

PipeStep(p) == UNCHANGED <<st, pc, hist, rd>> /\ sh' = p

PipeTop == pc = "pipe" /\ sh.at = "top" /\ PipeStep(PipeMade(sh))

PipeFork == pc = "pipe" /\ sh.at = "fork" /\ PipeStep(ChildForked(sh))

PipeClose == pc = "pipe" /\ sh.at = "close" /\ PipeStep(ParentCloses(sh))

ChildWires ==
    /\ pc = "pipe"
    /\ \E j \in 1..Len(sh.kids) :
          /\ sh.kids[j].at = "child"
          /\ PipeStep([sh EXCEPT
                         !.kids[j] = Wired(@, sh.close_me, sh.redirects[j])])

\* pseudo_exec(child)
ChildExecs ==
    /\ pc = "pipe"
    /\ \E j \in 1..Len(sh.kids) :
          /\ sh.kids[j].at = "ready"
          /\ PipeStep([sh EXCEPT !.kids[j].at = "exec"])

PipeNext == PipeTop \/ PipeFork \/ PipeClose \/ ChildWires \/ ChildExecs

SpecPipe == PipeInit /\ [][PipeNext]_vars


\* Child j (from 1) of the pipe has run its code up to the exec.
Set(j) == j <= Len(sh.kids) /\ sh.kids[j].at \in {"ready", "exec"}

\* Descriptor 0 of child j is the read end of the pipe before it, and
\* descriptor 1 the write end of the pipe after it unless the command
\* redirects it to a file.
InWired(j) == j > 1 => sh.kids[j].fds[0] = PipeEnd(j - 2, "r")

OutWired(j) ==
    j < sh.num_progs
       => \/ sh.kids[j].fds[1] = PipeEnd(j - 1, "w")
          \/ Asked(sh.redirects[j], 1) # <<None>>

\* C29 as stated: before any command of the pipe execs, every command's
\* stdout is connected to the stdin of the command after it.
C29_AllWiredBeforeAnyExec ==
    pc = "pipe" /\ (\E j \in 1..Len(sh.kids) : sh.kids[j].at = "exec")
       => \A j \in 1..(sh.num_progs - 1) :
             Set(j) /\ OutWired(j) /\ Set(j + 1) /\ InWired(j + 1)

\* C29, amended: the pipe from a command to the next one is made before
\* the command is forked, and each command has its own stdin and stdout
\* connected before it execs; the commands after it may not be forked yet.
C29_WiredBeforeOwnExec ==
    pc = "pipe" =>
       \A j \in 1..Len(sh.kids) :
          /\ sh.kids[j].made = (IF j < sh.num_progs THEN j ELSE j - 1)
          /\ Set(j) => InWired(j) /\ OutWired(j)

\* The three commands of a pipe without redirects have all exec'ed.
C29_Witness ==
    /\ pc = "pipe"
    /\ sh.num_progs = 3
    /\ \A j \in 1..3 : sh.redirects[j] = <<>>
    /\ Len(sh.kids) = 3
    /\ \A j \in 1..3 : sh.kids[j].at = "exec"

\* The ends of pipes that child j reads from and writes to.
OwnEnds(j) ==
    {PipeEnd(j - 2, "r") : x \in {1} \cap 1..(j - 1)}
    \cup {PipeEnd(j - 1, "w") : x \in {1} \cap 1..(sh.num_progs - j)}

\* Child j holds no end of a pipe but its own, the one it reads from on
\* descriptor 0 only and the one it writes to on descriptors 1 and 2 only.
HoldsOwnEnds(j) ==
    \A fd \in DOMAIN sh.kids[j].fds :
       IsPipeEnd(sh.kids[j].fds[fd])
          => /\ sh.kids[j].fds[fd] \in OwnEnds(j)
             /\ fd <= 2
             /\ fd = 0 <=> sh.kids[j].fds[fd][3] = "r"

\* C30: when the fork loop is over the shell has closed every descriptor
\* of a pipe it made, and a child that has run its code up to the exec
\* holds no end of a pipe but the two it is connected to: the write end
\* of each pipe is held by the command before it alone.
C30_NoPipeEndLeft ==
    pc = "pipe" /\ sh.at = "done" =>
       /\ sh.fds = sh.before
       /\ \A fd \in DOMAIN sh.fds : ~IsPipeEnd(sh.fds[fd])
       /\ Len(sh.kids) = sh.num_progs
       /\ sh.made = sh.num_progs - 1
       /\ \A j \in 1..Len(sh.kids) : Set(j) => HoldsOwnEnds(j)

\* The loop is over for a pipe of three commands read from a file, and
\* the children are ready to exec, the first with its pipe on 1 and 2.
C30_Witness ==
    /\ pc = "pipe"
    /\ sh.at = "done"
    /\ sh.num_progs = 3
    /\ sh.close_me # <<>>
    /\ \A j \in 1..3 : Set(j)
    /\ sh.kids[1].fds[2] = PipeEnd(0, "w")
    /\ sh.kids[2].fds[0] = PipeEnd(0, "r")


(***************************************************************************)
(* The counters of a pipe under job control.                               *)
(***************************************************************************)

\* The pipes the shell keeps counters for: the one checkjobs waits for in
\* the innermost activation, and the jobs of job_list.
CountedPipes ==
    {sh.jobs[j] : j \in 1..Len(sh.jobs)}
    \cup (IF pc = "run" /\ sh.frames # <<>>
             /\ Top(sh).at \in {"wait", "fgwait"}
          THEN {FgPipe(Top(sh))} ELSE {})

\* The members of pi that the shell has not seen exit, and those of them
\* whose is_stopped flag is set.
NotExited(pi) == {k \in 1..pi.num_progs : pi.progs[k].pid # 0}
FlaggedStopped(pi) == {k \in NotExited(pi) : pi.progs[k].is_stopped = 1}

\* A member of pi is running.
SomeRunning(pi) == \E pid \in PidsOf(pi) : Proc(pid).state = "run"

\* C31 as stated: stopped_progs counts the members not yet exited whose
\* is_stopped flag is set, 0 <= stopped_progs <= running_progs <=
\* num_progs, and the tests of checkjobs and of the jobs builtin succeed
\* only when no member of the pipe is running.
C31_StoppedCount ==
    \A pi \in CountedPipes :
       /\ pi.stopped_progs = Cardinality(FlaggedStopped(pi))
       /\ 0 <= pi.stopped_progs
       /\ pi.stopped_progs <= pi.running_progs
       /\ pi.running_progs <= pi.num_progs
       /\ FgDone(pi) => ~SomeRunning(pi)
       /\ pi.running_progs = pi.stopped_progs => ~SomeRunning(pi)

\* running_progs counts the members not yet seen to exit, and
\* stopped_progs is at least the number of them flagged as stopped.
RunningCount ==
    \A pi \in CountedPipes :
       /\ pi.running_progs = Cardinality(NotExited(pi))
       /\ pi.running_progs <= pi.num_progs
       /\ pi.stopped_progs >= Cardinality(FlaggedStopped(pi))
       /\ pi.stopped_progs <= pi.num_progs


(***************************************************************************)
(* The storage of a pipe's commands.  One pipe of sleep commands is run    *)
(* by run_list: sh has the pipe of the list (pi), job_list (jobs), the     *)
(* job that fg waits for (fg), the children (procs), and for each command  *)
(* of the pipe how often its argv (the glob result) and its redirect list  *)
(* have been released (heap).  A struct child_prog is copied as a value,   *)
(* its argv and redirects being pointers: every copy of command k refers   *)
(* to the same storage as long as its own pointer is not NULL.  at is      *)
(* where the shell is: before run_list_real ("start"), in checkjobs(pi)    *)
(* ("wait"), after run_list_real ("listend"), between statements           *)
(* ("prompt"), or in fg's checkjobs ("fgwait").                            *)
(***************************************************************************)
MaxProgs == 2

Sleep == <<"s", "l", "e", "e", "p">>

\* sleep, and sleep >a
SleepChildren ==
    {[ZeroChild({FLAG_PARSE_SEMICOLON}) EXCEPT
        !.argv = <<Sleep>>, !.redirects = l] :
       l \in {<<>>, << Redir(REDIRECT_OVERWRITE, 1, -1, << <<"a">> >>) >>}}

\* The pipes run_list is given: 1 to MaxProgs commands, followed by ; or &
SleepPipes ==
    UNION {{[new_pipe EXCEPT
               !.num_progs = n,
               !.progs = c \o <<ZeroChild({FLAG_PARSE_SEMICOLON})>>,
               !.followup = followup,
               !.pgrp = -1] :
              c \in [1..n -> SleepChildren],
              followup \in {PIPE_SEQ, PIPE_BG}} : n \in 1..MaxProgs}

Heap0(n) == [argv |-> [k \in 1..n |-> 0], redirects |-> [k \in 1..n |-> 0]]

FreeInit ==
    /\ \E pi \in SleepPipes :
          sh = [pi |-> pi, jobs |-> <<>>, last_jobid |-> 0, fg |-> <<>>,
                procs |-> <<>>, heap |-> Heap0(pi.num_progs), at |-> "start"]
    /\ st = <<>> /\ pc = "free" /\ hist = <<>> /\ rd = <<>>

\* free_pipe(pi): nothing for a pipe with stopped_progs > 0; else
\* globfree of the glob result of each command whose argv is not NULL,
\* free of each struct of its redirect list, and free(pi->progs).
free_pipe(pi, heap) ==
    IF pi.stopped_progs > 0 THEN [pi |-> pi, heap |-> heap]
    ELSE [pi |-> [pi EXCEPT !.progs = <<>>],
          heap |-> [argv |-> [k \in DOMAIN heap.argv |->
                       heap.argv[k]
                       + (IF pi.progs[k].argv # <<>> THEN 1 ELSE 0)],
                    redirects |-> [k \in DOMAIN heap.redirects |->
                       heap.redirects[k]
                       + (IF pi.progs[k].redirects # <<>> THEN 1 ELSE 0)]]]

\* delete_finished_bg_job(pi), as far as the storage goes
delete_finished_bg_job(pi, heap) ==
    free_pipe([pi EXCEPT !.stopped_progs = 0], heap).heap

\* The loop that forks, for sleep commands: [pi, procs]
RECURSIVE ForkSleeps(_, _, _)
ForkSleeps(pi, procs, k) ==
    IF k > pi.num_progs THEN [pi |-> pi, procs |-> procs]
    ELSE LET pid == PidBase + Len(procs) + 1
             pgrp == IF pi.pgrp < 0 THEN pid ELSE pi.pgrp
         IN ForkSleeps([pi EXCEPT !.progs[k].pid = pid, !.pgrp = pgrp,
                                  !.running_progs = @ + 1],
                       Append(procs, [pgrp |-> pgrp, state |-> "run",
                                      status |-> 0, told |-> FALSE]),
                       k + 1)

\* checkjobs(NULL) with the storage: G is [procs, jobs, last_jobid, heap]
RECURSIVE Reap(_)
Reap(G) ==
    IF Waitable(G.procs) = {} THEN G
    ELSE LET childpid == CHOOSE c \in Waitable(G.procs) :
                            \A d \in Waitable(G.procs) : c <= d
             dead == G.procs[childpid - PidBase].state = "zombie"
             j == JobOf(G.jobs, childpid)
             u == JobUpdate(G.jobs, G.last_jobid, childpid, dead)
         IN Reap([procs |-> Reported(G.procs, childpid),
                  jobs |-> u.jobs, last_jobid |-> u.last_jobid,
                  heap |-> IF u.done # <<>>
                           THEN delete_finished_bg_job(G.jobs[j], G.heap)
                           ELSE G.heap])

Reaped(S) ==
    LET G == Reap([procs |-> S.procs, jobs |-> S.jobs,
                   last_jobid |-> S.last_jobid, heap |-> S.heap])
    IN [S EXCEPT !.procs = G.procs, !.jobs = G.jobs,
                 !.last_jobid = G.last_jobid, !.heap = G.heap]

FreeStep(S) == sh' = S /\ UNCHANGED <<st, pc, hist, rd>>

\* run_pipe_real forks the pipe; one that ends in & becomes a job.
FreeRun ==
    /\ pc = "free" /\ sh.at = "start"
    /\ LET F == ForkSleeps(sh.pi, sh.procs, 1)
           J == insert_bg_job(sh.jobs, F.pi)
       IN IF sh.pi.followup = PIPE_BG
          THEN FreeStep([sh EXCEPT !.pi = J.pi, !.jobs = J.jobs,
                                   !.last_jobid = J.last_jobid,
                                   !.procs = F.procs, !.at = "listend"])
          ELSE FreeStep([sh EXCEPT !.pi = F.pi, !.procs = F.procs,
                                   !.at = "wait"])

\* The pipe that checkjobs(fg_pipe) waits for.
Awaited == IF sh.at = "fgwait" THEN sh.fg[1] ELSE sh.pi

\* checkjobs(fg_pipe), one turn of its loop.
FreeWait ==
    /\ pc = "free" /\ sh.at \in {"wait", "fgwait"}
    /\ \E childpid \in Waitable(sh.procs) :
          LET dead == sh.procs[childpid - PidBase].state = "zombie"
              k == ProgOf(Awaited, childpid)
              pi1 == FgUpdate(Awaited, k, dead)
              J == insert_bg_job(sh.jobs, pi1)
              S == [sh EXCEPT !.procs = Reported(@, childpid)]
              made == FgDone(pi1) /\ pi1.running_progs # 0
              pi2 == IF made THEN J.pi ELSE pi1
              T == [S EXCEPT
                      !.jobs = IF made THEN J.jobs ELSE @,
                      !.last_jobid = IF made THEN J.last_jobid ELSE @]
          IN /\ k # 0
             /\ IF sh.at = "wait"
                THEN FreeStep([T EXCEPT
                                 !.pi = pi2,
                                 !.at = IF FgDone(pi1) THEN "listend" ELSE @])
                ELSE FreeStep([T EXCEPT
                                 !.fg = IF FgDone(pi1) THEN <<>> ELSE <<pi2>>,
                                 !.at = IF FgDone(pi1) THEN "prompt" ELSE @])

\* The end of run_list_real's turn and of run_list: checkjobs(NULL), and
\* free_pipe_list(pi, 0) on the list.
FreeListEnd ==
    /\ pc = "free" /\ sh.at = "listend"
    /\ LET S == Reaped(sh)
           r == free_pipe(S.pi, S.heap)
       IN FreeStep([S EXCEPT !.pi = r.pi, !.heap = r.heap, !.at = "prompt"])

\* A later command has run: checkjobs(NULL).
FreeCheckJobs ==
    /\ pc = "free" /\ sh.at = "prompt"
    /\ Waitable(sh.procs) # {}
    /\ FreeStep(Reaped(sh))

\* fg or bg of job j.
FreeFgBg ==
    /\ pc = "free" /\ sh.at = "prompt"
    /\ \E j \in 1..Len(sh.jobs), fg \in BOOLEAN :
          LET pi == sh.jobs[j]
              R == remove_bg_job(sh.jobs, j)
              S == [sh EXCEPT !.procs = SIGCONT(@, pi.pgrp)]
          IN IF Members(sh.procs, pi.pgrp) = {}
             THEN FreeStep([sh EXCEPT
                              !.jobs = R.jobs, !.last_jobid = R.last_jobid,
                              !.heap = delete_finished_bg_job(Revived(pi),
                                                              @)])
             ELSE IF fg
             THEN FreeStep([S EXCEPT
                              !.jobs = R.jobs, !.last_jobid = R.last_jobid,
                              !.fg = <<Revived(pi)>>, !.at = "fgwait"])
             ELSE FreeStep([S EXCEPT !.jobs[j] = Revived(pi)])

FreeChildExit ==
    /\ pc = "free"
    /\ \E k \in 1..Len(sh.procs) :
          /\ sh.procs[k].state = "run"
          /\ FreeStep([sh EXCEPT !.procs[k].state = "zombie"])

FreeChildStop ==
    /\ pc = "free"
    /\ \E k \in 1..Len(sh.procs) :
          /\ sh.procs[k].state = "run"
          /\ FreeStep([sh EXCEPT !.procs[k].state = "stop"])

FreeChildKill ==
    /\ pc = "free"
    /\ \E k \in 1..Len(sh.procs) :
          /\ sh.procs[k].state = "stop"
          /\ FreeStep([sh EXCEPT !.procs[k].state = "zombie"])

FreeNext ==
    \/ FreeRun
    \/ FreeWait
    \/ FreeListEnd
    \/ FreeCheckJobs
    \/ FreeFgBg
    \/ FreeChildExit
    \/ FreeChildStop
    \/ FreeChildKill

SpecFree == FreeInit /\ [][FreeNext]_vars

\* C32 as stated: the argv and the redirect list of each command are
\* released at most once, for a pipe that ends in & as for a foreground
\* pipe that stops.
C32_ReleasedOnce ==
    pc = "free" =>
       \A k \in DOMAIN sh.heap.argv :
          sh.heap.argv[k] <= 1 /\ sh.heap.redirects[k] <= 1

\* The storage of a foreground pipe is released at most once, whether
\* the pipe stops or not.
ForegroundReleasedOnce ==
    pc = "free" /\ sh.pi.followup # PIPE_BG =>
       \A k \in DOMAIN sh.heap.argv :
          sh.heap.argv[k] <= 1 /\ sh.heap.redirects[k] <= 1

\* The storage of a pipe that ended in & is released by run_list when
\* the list is done, whatever has become of the job.
BackgroundReleasedByRunList ==
    pc = "free" /\ sh.pi.followup = PIPE_BG /\ sh.at = "prompt" =>
       \A k \in DOMAIN sh.heap.argv : sh.heap.argv[k] >= 1


(***************************************************************************)
(* make_list_in by itself: the list of `for v in $x`, for a value of x    *)
(* and an IFS in the environment.  sh holds the environment, the word of   *)
(* the list as the parser left it, and the list once it is made.           *)
(***************************************************************************)
ForAlphabet == {"a", " ", ":", NL}

ForValues == UNION {[1..n -> ForAlphabet] : n \in 0..MaxLen}

IFSName == <<"I", "F", "S">>

\* $x as the parser leaves it in a word
Marker(name) == <<SPECIAL_VAR_SYMBOL>> \o name \o <<SPECIAL_VAR_SYMBOL>>

ForInit ==
    /\ \E v \in ForValues, ifs \in IFSValues :
          sh = [env |-> << <<"x", "=">> \o v, IFSName \o <<"=">> \o ifs >>,
                inp |-> << Marker(<<"x">>) >>, name |-> <<"v">>,
                list |-> <<>>, at |-> "for"]
    /\ st = <<>> /\ pc = "for" /\ hist = <<>> /\ rd = <<>>

\* list = make_list_in(pi->next->progs->argv, pi->progs->argv[0])
MakeListIn ==
    /\ pc = "for" /\ sh.at = "for"
    /\ sh' = [sh EXCEPT
                !.list = make_list_in(<<shell_ver>>, sh.env, sh.inp, sh.name),
                !.at = "made"]
    /\ UNCHANGED <<st, pc, hist, rd>>

ForNextStep == MakeListIn

SpecFor == ForInit /\ [][ForNextStep]_vars

\* The value of x, and the characters of the IFS in force.
ForValue == getenv(sh.env, <<"x">>)
ActiveIFS == SeqToSet(IfsOf(sh.env))

\* C33 as stated: the list of a for loop has one NAME=field for each
\* field of the expanded item, the fields being what lies between the
\* characters of the IFS in force.
C33_ForListSplitOnIFS ==
    pc = "for" /\ sh.at = "made" =>
       sh.list = NameIs(sh.name, SplitOn(ForValue, ActiveIFS, <<>>))

\* The list of a for loop has one NAME=field for each field of the
\* expanded item, the fields being what lies between spaces and newlines,
\* whatever the IFS is.
ForListSplitOnSpace ==
    pc = "for" /\ sh.at = "made" =>
       sh.list = NameIs(sh.name, SplitOn(ForValue, {" ", NL}, <<>>))


(***************************************************************************)
(* Commands with words and commands with a group.                          *)
(***************************************************************************)

\* No command of the list pipes, and of the groups below it, has both
\* argv and group.
RECURSIVE Unmixed(_)
Unmixed(pipes) ==
    \A i \in 1..Len(pipes) :
       \A j \in 1..Len(pipes[i].progs) :
          /\ ~(pipes[i].progs[j].argv # <<>> /\ pipes[i].progs[j].group # <<>>)
          /\ Unmixed(pipes[i].progs[j].group)

\* A word for a command that has a group is a syntax error, and the
\* context stays as it is.
WordAfterGroup ==
    OpenChild(st.ctx).group # <<>> /\ st.ctx.pending = <<>>
       => LET r == done_word([st EXCEPT !.dest.data = <<"a">>])
          IN r.ret = 1 /\ r.sntx /\ r.ctx = st.ctx

\* A group for a command that has words is a syntax error, and the
\* context and the input stay as they are.
GroupAfterWord ==
    OpenChild(st.ctx).argv # <<>>
       => \A ch \in {"(", "{"} :
             LET r == parse_group(st, ch)
             IN r.ret = 1 /\ r.sntx /\ r.ctx = st.ctx /\ r.inp = st.inp

\* C34: in every parse tree no command has both argv and group; a word
\* that arrives for a command with a group, and a group opened for a
\* command with words, are syntax errors that leave the command as it is.
C34_ArgvOrGroup ==
    pc = "parse" /\ st.rc # Faulted
       => /\ Unmixed(st.ctx.pipes)
          /\ \A k \in 1..Len(st.ctx.stack) : Unmixed(st.ctx.stack[k].pipes)
          /\ Unmixed(hist.list)
          /\ st.rc = Running => WordAfterGroup /\ GroupAfterWord

\* A word has arrived for a command with a group: the syntax error is
\* on record, the word is still in dest, and parse_stream has returned 1.
C34_Witness ==
    /\ pc = "parse"
    /\ st.rc = 1
    /\ st.sntx
    /\ OpenChild(st.ctx).group # <<>>
    /\ OpenChild(st.ctx).argv = <<>>
    /\ st.dest.data = <<"a">>


(***************************************************************************)
(* The redirect that waits for its word.                                   *)
(***************************************************************************)

\* The place of the open command in the context's list.
OpenPlace(ctx) == <<Len(ctx.pipes), Last(ctx.pipes).num_progs + 1>>

\* C35 as stated: pending_redirect, when set, is a redirect of the open
\* command, so that a redirection operator whose command was closed
\* before a word came gets no word of a later command.
C35_PendingIsOpen ==
    pc = "parse" /\ st.rc # Faulted /\ st.ctx.pending # <<>>
       => SubSeq(st.ctx.pending, 1, 2) = OpenPlace(st.ctx)

\* pending_redirect, when set, is a redirect of the open command or of
\* an earlier command of the context's list: one that names no
\* descriptor to copy and has no word yet.
PendingIsUnfilled ==
    pc = "parse" /\ st.rc # Faulted /\ st.ctx.pending # <<>>
       => /\ st.ctx.pending[1] \in 1..Len(st.ctx.pipes)
          /\ st.ctx.pending[2]
                \in 1..Len(st.ctx.pipes[st.ctx.pending[1]].progs)
          /\ RedirAt(st.ctx, st.ctx.pending).dup = -1
          /\ RedirAt(st.ctx, st.ctx.pending).word = <<>>

\* A command of the list handed to run_list has a redirect whose word
\* came after the command was closed.
LateWord ==
    /\ pc = "parse"
    /\ Len(hist.list) > 1
    /\ hist.list[1].num_progs = 1
    /\ hist.list[1].progs[1].argv = <<>>
    /\ Len(hist.list[1].progs[1].redirects) = 1
    /\ hist.list[1].progs[1].redirects[1].word = << <<"a">> >>
    /\ hist.list[2].num_progs = 0


(***************************************************************************)
(* N>&- and N<&-: redirect_dup_num gives -3 for the "-" after the "&",     *)
(* and setup_redirects takes it as openfd.                                 *)
(***************************************************************************)
CloseMe(redir) == redir.dup = -3

\* The command runs, and the last redirect of its list is a "close me".
RanAfterCloseMe ==
    /\ pc = "redir"
    /\ rd.at = "run"
    /\ rd.redirects # <<>>
    /\ rd.k = Len(rd.redirects)
    /\ rd.r.ret = 0
    /\ CloseMe(Last(rd.redirects))

\* C36 as stated: a redirect N>&- closes descriptor N for the command
\* when the command's redirects are set up.
C36_CloseMeCloses ==
    RanAfterCloseMe => ~IsOpen(rd.during, Last(rd.redirects).fd)

\* What setup_redirects does with it: close(-3), which closes nothing, so
\* that descriptor N is what it was before the redirect.
CloseMeLeavesOpen ==
    RanAfterCloseMe /\ (\A k \in 1..Len(rd.redirects) : CloseMe(rd.redirects[k]))
       => rd.during[0] = rd.before[0]

CloseMeRan == RanAfterCloseMe /\ Len(rd.redirects) = 1


(***************************************************************************)
(* peek and get of the two kinds of stream, at every stream state the     *)
(* parser comes to.                                                        *)
(***************************************************************************)
AtStream == pc = "parse" /\ st.rc = Running

\* The stream without the note of a read outside the string.
Taken(i) == [i EXCEPT !.over = FALSE]

\* C37 as stated: peek returns the value the next get returns, at the end
\* of the input too, for string and file streams.
C37_PeekIsNextGet ==
    AtStream => b_peek(st.inp)[1] = b_getch(st.inp)[1]

\* A get after a peek is the get without the peek, and leaves the stream
\* where that get leaves it.
PeekConsumesNothing ==
    AtStream =>
       /\ b_getch(b_peek(st.inp)[2])[1] = b_getch(st.inp)[1]
       /\ Taken(b_getch(b_peek(st.inp)[2])[2]) = Taken(b_getch(st.inp)[2])

\* file_peek is the next file_get; static_peek is the next static_get
\* before the terminator, and NUL where static_get gives EOF.
PeekIsNextGetButAtStringEnd ==
    AtStream /\ ~Outside(st.inp) =>
       IF st.inp.kind = "string" /\ st.inp.pos > Len(st.inp.data)
       THEN b_peek(st.inp)[1] = NUL /\ b_getch(st.inp)[1] = EOF
       ELSE b_peek(st.inp)[1] = b_getch(st.inp)[1]

\* The whole input is one statement that ends in a backslash.
EndsInBackslash ==
    /\ hist.n = 1
    /\ hist.text \in {<<BSL>>, <<"a", BSL>>}
    /\ hist.text = st.inp.data

FileBackslashIsSyntaxError ==
    EndsInBackslash /\ st.inp.kind = "file" => hist.sntx /\ hist.rcode = 1

StringBackslashIsSyntaxError ==
    EndsInBackslash /\ st.inp.kind = "string" => hist.sntx /\ hist.rcode = 1

StringAtEnd ==
    /\ AtStream
    /\ st.inp.kind = "string"
    /\ st.inp.pos = Len(st.inp.data) + 1
    /\ st.inp.data # <<>>


(***************************************************************************)
(* The top-level parser under values of IFS with and without the newline.  *)
(***************************************************************************)
NewlineFreeIFS == {<<":">>, <<" ">>}

IFSInit ==
    /\ \E s \in Strings(MaxLen),
          ifs \in NewlineFreeIFS \cup {DefaultIFS} :
          \E i \in {FileIn(s, NUL), StringIn(s, NUL)} :
             st = ParserInit(i, {FLAG_PARSE_SEMICOLON}, ifs, Globals0)
    /\ pc = "parse"
    /\ hist = Hist0
    /\ rd = <<>>
    /\ sh = <<>>

SpecIFS == IFSInit /\ [][ParseNext]_vars

\* The next character is a newline that parse_stream's loop reads itself,
\* no double quote is open and no compound statement is.
AtTopLevelNewline ==
    /\ pc = "parse"
    /\ st.rc = Running
    /\ b_getch(st.inp)[1] = NL
    /\ ~st.dest.quote
    /\ st.ctx.w = RES_NONE
    /\ st.ctx.old_flag = {}
    /\ st.ctx.stack = <<>>

\* The turn of the loop that read it opened no compound statement and met
\* no syntax error.
NewlineTaken == pc' = "parse" /\ st'.ctx.w = RES_NONE /\ st'.rc # 1

\* C38 as stated: an unquoted newline outside any compound statement ends
\* the top-level statement, parse_stream returning 0, whatever IFS is.
C38_NewlineEndsStatement ==
    [][AtTopLevelNewline /\ NewlineTaken => st'.rc = 0]_vars

\* It does when the newline is a character of IFS.
NewlineInIFSEndsStatement ==
    [][AtTopLevelNewline /\ NewlineTaken /\ NL \in SeqToSet(st.ifs)
          => st'.rc = 0]_vars

\* It is a character of the word when it is not.
NewlineOutsideIFSIsText ==
    [][AtTopLevelNewline /\ NewlineTaken /\ NL \notin SeqToSet(st.ifs)
          => /\ st'.rc = Running
             /\ st'.dest.data = Append(st.dest.data, NL)]_vars

NewlineInWord ==
    /\ pc = "parse"
    /\ NL \notin SeqToSet(st.ifs)
    /\ st.dest.data = <<"a", NL>>


(***************************************************************************)
(* Words parsed again.  run_pipe_real sends the words of a command whose   *)
(* marker count sp is not zero to parse_string_outer, which parses them    *)
(* with FLAG_REPARSING and runs the list through run_list and              *)
(* run_pipe_real again.  sh holds top_vars and the environment, the lists  *)
(* still to run (frames: the first is the list of the statement, every     *)
(* parse_string_outer in progress adds one), the string handed to          *)
(* parse_string_outer (str), the list it made (parsed) and where the shell *)
(* is (at).                                                                *)
(***************************************************************************)
MaxPasses == 4

ReparseChars == {"a", "x", "=", "$", SQ, BQ, " ", SPECIAL_VAR_SYMBOL}

MarkedX == <<SPECIAL_VAR_SYMBOL, "x", SPECIAL_VAR_SYMBOL>>

ReparseValues ==
    UNION {[1..k -> ReparseChars] : k \in 0..MaxLen}
    \cup { <<"a", "=">> \o MarkedX \o <<" ", "a">>,
           <<"a", "=">> \o MarkedX \o <<" ">> \o MarkedX,
           <<"$", "x", " ", BQ, "a", BQ>> }

ReparseOuts == Outs \cup {<<"$", "x">>}

\* The statements whose words hold $x
FirstTexts ==
    { <<"$", "x", NL>>, <<"a", " ", "$", "x", NL>>,
      <<"a", "=", "$", "x", " ", "$", "x", NL>> }

HasProgs(pi) == pi.num_progs > 0

\* The pipes of a list that run_list_real has something to run for.
Runnable(list) == SelectSeq(list, HasProgs)

\* The list parse_stream_outer hands to run_list for a statement.
FirstList(text) ==
    OuterBottom(parse_stream(ParserInit(StringIn(text, NUL),
                                        {FLAG_PARSE_SEMICOLON}, DefaultIFS,
                                        Globals0),
                             NL)).list

ReparseInit ==
    /\ \E v \in ReparseValues, text \in FirstTexts :
          sh = [tv |-> <<shell_ver,
                         [name |-> <<"x">>, value |-> v, flg_export |-> 0,
                          flg_read_only |-> 0]>>,
                env |-> <<>>,
                frames |-> <<Runnable(FirstList(text))>>,
                str |-> <<>>, parsed |-> <<>>, at |-> "run"]
    /\ pc = "reparse"
    /\ st = <<>> /\ hist = <<>> /\ rd = <<>>

\* The number of marker bytes of a word.
RECURSIVE Markers(_)
Markers(s) ==
    IF s = <<>> THEN 0
    ELSE (IF Head(s) = SPECIAL_VAR_SYMBOL THEN 1 ELSE 0) + Markers(Tail(s))

\* insert_var_value writes through the NULL that its second strchr gives
\* for a marker without its mate.
Unmated(argv) == \E k \in 1..Len(argv) : Markers(argv[k]) % 2 = 1

\* sh with the first pipe of the innermost list taken off.
Popped(S) ==
    [S EXCEPT !.frames[Len(S.frames)] = Tail(@)]

\* run_pipe_real for a single command with words: pe is what the loop over
\* the leading assignments left of the environment and of sp.
ReparseBranch(S, pi, argv, pe) ==
    CASE Branch(pi, pe.sp) = "assign" ->
            LET V == AssignAll([tv |-> S.tv, env |-> S.env], argv)
            IN [Popped(S) EXCEPT !.tv = V.tv, !.env = V.env]
      [] Branch(pi, pe.sp) = "reparse" ->
            [Popped(S) EXCEPT
               !.env = pe.env,
               !.str = make_string(S.tv, pe.env,
                                   SubSeq(argv, LeadingAssignments(argv) + 1,
                                          Len(argv))),
               !.at = "parse"]
      [] OTHER -> [Popped(S) EXCEPT !.env = pe.env]

\* One turn of run_list_real's loop in the innermost list, or its return.
ReparseTurn(S) ==
    LET top == Last(S.frames)
        pi == Head(top)
        child == pi.progs[1]
    IN IF top = <<>>
       THEN [S EXCEPT !.frames = Front(@),
                      !.at = IF Len(S.frames) = 1 THEN "done" ELSE "run"]
       ELSE IF child.group # <<>>
       THEN [S EXCEPT !.frames[Len(S.frames)] =
                          Runnable(child.group) \o Tail(top)]
       ELSE IF ~single_fg(pi) \/ child.argv = <<>> THEN Popped(S)
       ELSE IF Unmated(child.argv) THEN [S EXCEPT !.at = "crashed"]
       ELSE ReparseBranch(S, pi, child.argv,
                          IF Branch(pi, child.sp) = "assign"
                          THEN [env |-> S.env, sp |-> child.sp]
                          ELSE PutenvLeading(S.tv, S.env, child.sp,
                                             child.argv))

ReparseRun ==
    /\ pc = "reparse"
    /\ sh.at = "run"
    /\ sh' = ReparseTurn(sh)
    /\ UNCHANGED <<st, pc, hist, rd>>

\* parse_string_outer(str, FLAG_EXIT_FROM_LOOP | FLAG_REPARSING): the
\* parse, done_word and done_pipe, and the list given to run_list.
ReparseParsed(S, p) ==
    IF p.rc = Faulted THEN [S EXCEPT !.at = "crashed"]
    ELSE LET b == OuterBottom(p)
         IN [S EXCEPT
               !.frames = Append(@, IF b.run THEN Runnable(b.list) ELSE <<>>),
               !.parsed = IF b.run THEN b.list ELSE <<>>,
               !.at = "run"]

ReparseParse ==
    /\ pc = "reparse"
    /\ sh.at = "parse"
    /\ Len(sh.frames) < MaxPasses
    /\ \E u \in UTypes, o \in ReparseOuts :
          sh' = ReparseParsed(
                   sh,
                   parse_stream(
                      [ParserInit(StringIn(sh.str, NUL),
                                  {FLAG_EXIT_FROM_LOOP, FLAG_REPARSING},
                                  IfsOf(sh.env), Globals0)
                       EXCEPT !.utype = u, !.outs = o],
                      NL))
    /\ UNCHANGED <<st, pc, hist, rd>>

ReparseNext == ReparseRun \/ ReparseParse

SpecReparse == ReparseInit /\ [][ReparseNext]_vars

\* Every command of a list, the commands of its groups included, has the
\* marker count 0.
RECURSIVE NoMarkerCount(_)
NoMarkerCount(list) ==
    \A k \in 1..Len(list) :
       \A j \in 1..list[k].num_progs :
          /\ list[k].progs[j].sp = 0
          /\ NoMarkerCount(list[k].progs[j].group)

\* The parse_string_outer calls in progress.
Passes == Len(sh.frames) - 1 + (IF sh.at = "parse" THEN 1 ELSE 0)

ValueOfX == get_local_var(sh.tv, <<"x">>)

\* C39 as stated: no command of the reparsing pass has a marker count,
\* and run_pipe_real parses a command again at most once, whatever the
\* values of the variables.
C39_ReparsedOnce ==
    pc = "reparse" => NoMarkerCount(sh.parsed) /\ Passes <= 1

\* The parser counts no marker in the reparsing pass, for every value.
ReparsingCountsNoMarker ==
    pc = "reparse" => NoMarkerCount(sh.parsed)

\* A value without the marker byte is parsed again once.
ReparsedOnceWithoutMarkerByte ==
    pc = "reparse" /\ Markers(ValueOfX) = 0 => Passes <= 1

\* A value that names itself between marker bytes after an assignment is
\* parsed again and again, the same string every time.
ParsedAgainAndAgain ==
    /\ pc = "reparse"
    /\ sh.at = "parse"
    /\ Len(sh.frames) = MaxPasses
    /\ sh.str = ValueOfX \o <<NL>>

DollarValueReparsed ==
    /\ pc = "reparse"
    /\ sh.at = "done"
    /\ ValueOfX = <<"$", "x", " ", BQ, "a", BQ>>
    /\ sh.parsed # <<>>


(***************************************************************************)
(* $0..$9 and $* in handle_dollar.  parse_string runs parse_stream on the  *)
(* text of a positional parameter, and that parse_stream calls             *)
(* handle_dollar for the $ it reads there.  The calls in progress are kept *)
(* in sh.stack, the outermost first: the stream the caller was reading     *)
(* (inp) and where handle_dollar goes on when parse_string returns (back). *)
(* st is the parser's state with the innermost stream as its inp.          *)
(***************************************************************************)
MaxNest == 4

ParamChars == {"a", "$", "1", "2", "*"}

ParamValues == UNION {[1..k -> ParamChars] : k \in 0..MaxLen}

ParamTexts == { <<"a", " ", "$", "1", NL>>, <<"a", " ", "$", "*", NL>> }

ParamArgvs ==
    {<<ScriptFile, v>> : v \in ParamValues}
    \cup {<<ScriptFile, v, w>> :
             v \in ParamValues, w \in {<<"a">>, <<"$", "1">>}}

ParamInit ==
    /\ \E text \in ParamTexts, argv \in ParamArgvs :
          st = ParserInit(FileIn(text, NUL), {FLAG_PARSE_SEMICOLON},
                          DefaultIFS, [Globals0 EXCEPT !.argv = argv])
    /\ sh = [stack |-> <<>>]
    /\ pc = "param"
    /\ hist = <<>> /\ rd = <<>>

\* parse_string(dest, ctx, src) is entered by the handle_dollar that was
\* reading s.inp: setup_string_in_str and the call of parse_stream.
Entered(s, src) ==
    [s EXCEPT !.inp = StringIn(src, NUL), !.rc = Running]

Frame(s, kind, i) == [inp |-> s.inp, kind |-> kind, i |-> i]

\* parse_stream has read a $ and handle_dollar has peeked at ch: the
\* branches that call parse_string.
CallsParseString(s, ch) ==
    \/ isdigit(ch) /\ DigitVal(ch) < Len(s.argv)
    \/ ch = "*" /\ 1 < Len(s.argv)

\* The parser after b_getch gave the $ and next = b_peek(input) was taken.
AfterDollar(s) == [s EXCEPT !.inp = b_peek(b_getch(s.inp)[2])[2], !.ret = 0]

\* The character handle_dollar peeks at.
DollarCh(s) == b_peek(AfterDollar(s).inp)[1]

AtDollar(s) ==
    /\ s.rc = Running
    /\ b_getch(s.inp)[1] = "$"
    /\ Map(s, "$") = 3

EndTrigger == IF sh.stack = <<>> THEN NL ELSE NUL

\* One turn of the innermost parse_stream's loop that calls no
\* parse_string.
ParamIter ==
    /\ pc = "param"
    /\ st.rc = Running
    /\ ~(AtDollar(st) /\ CallsParseString(st, DollarCh(st)))
    /\ st' = Iter(st, EndTrigger)
    /\ UNCHANGED <<pc, hist, rd, sh>>

\* handle_dollar calls parse_string for $N or for the first turn of the
\* loop of $*.
ParamCall ==
    /\ pc = "param"
    /\ AtDollar(st)
    /\ CallsParseString(st, DollarCh(st))
    /\ Len(sh.stack) < MaxNest
    /\ LET s0 == AfterDollar(st)
           ch == DollarCh(st)
       IN IF isdigit(ch)
          THEN /\ sh' = [stack |-> Append(sh.stack, Frame(s0, "digit", 0))]
               /\ st' = Entered(s0, st.argv[DigitVal(ch) + 1])
          ELSE /\ sh' = [stack |-> Append(sh.stack, Frame(s0, "star", 1))]
               /\ st' = Entered(s0, st.argv[2])
    /\ UNCHANGED <<pc, hist, rd>>

\* parse_string has returned to handle_dollar, which drops its value: the
\* advance after $N, the separator and the next parameter of $*.
ParamReturn ==
    /\ pc = "param"
    /\ st.rc # Running
    /\ sh.stack # <<>>
    /\ LET f == Last(sh.stack)
           r == [Back(st, f.inp) EXCEPT !.ret = 0]
       IN CASE f.kind = "digit" ->
                 /\ st' = [r EXCEPT !.inp = b_getch(@)[2]]
                 /\ sh' = [stack |-> Front(sh.stack)]
            [] f.kind = "star" /\ f.i + 1 < Len(st.argv) ->
                 /\ st' = Entered(r, <<Head(st.ifs)>>)
                 /\ sh' = [stack |-> Append(Front(sh.stack),
                                            Frame(r, "sep", f.i))]
            [] f.kind = "sep" ->
                 /\ st' = Entered(r, st.argv[f.i + 2])
                 /\ sh' = [stack |-> Append(Front(sh.stack),
                                            Frame(r, "star", f.i + 1))]
            [] OTHER ->
                 /\ st' = r
                 /\ sh' = [stack |-> Front(sh.stack)]
    /\ UNCHANGED <<pc, hist, rd>>

\* The top-level parse_stream has returned.
ParamEnd ==
    /\ pc = "param"
    /\ st.rc # Running
    /\ sh.stack = <<>>
    /\ pc' = "expanded"
    /\ UNCHANGED <<st, hist, rd, sh>>

ParamNext == ParamIter \/ ParamCall \/ ParamReturn \/ ParamEnd

SpecParam == ParamInit /\ [][ParamNext]_vars

\* The parse_string calls in progress, one inside the other.
Nesting == Len(sh.stack)

RefersToParameter(v) == \E k \in 1..Len(v) : v[k] = "$"

\* C40 as stated: the expansion of a positional parameter ends for every
\* value, the values that refer to positional parameters included: the
\* calls of parse_string in progress never outnumber the parameters.
C40_ExpansionEnds ==
    pc = "param" => Nesting <= Len(st.argv)

\* Without a $ in the parameters every parse_string returns before the
\* next is called.
PlainParametersEnd ==
    pc = "param" /\ (\A k \in 2..Len(st.argv) : ~RefersToParameter(st.argv[k]))
       => Nesting <= 1

\* $1 holds $1: every parse_string calls the next for the same text.
RefersToItself ==
    /\ pc = "param"
    /\ st.argv = <<ScriptFile, <<"$", "1">> >>
    /\ Nesting = MaxNest
    /\ \A k \in 1..MaxNest : sh.stack[k].kind = "digit"
    /\ st.inp.data = <<"$", "1">>

PlainExpanded ==
    /\ pc = "expanded"
    /\ st.argv = <<ScriptFile, <<"a", "a">> >>
    /\ st.rc = 0

=============================================================================
